---------------------------- MODULE Spec2Model ----------------------------
(***************************************************************************)
(* Model of the window-cleaner schedule optimiser.                         *)
(*                                                                         *)
(*   src/optimiser.py : create_2_week_schedule and its helpers, the duration *)
(*                      estimator and the time-savings analysis            *)
(*   src/scheduler.py : WindowCleanerScheduler.generate_full_schedule      *)
(*                                                                         *)
(* Conventions.                                                            *)
(*  - A calendar date is an integer day number; the 'YYYY-MM-DD' strings   *)
(*    the code uses as dictionary keys (strftime) are one-to-one with the  *)
(*    dates, so a key is modelled by its day number.  The weekday of date  *)
(*    d is d % 7.                                                          *)
(*  - A field that Python parses (strptime, int(...)) is modelled as a     *)
(*    tuple: <<v>> when the parse yields v, << >> when the parse raises    *)
(*    ValueError or the key is missing (KeyError).  An optional calendar   *)
(*    entry is << >> for None and <<h>> for h hours.                       *)
(*  - A Python list is a sequence, a dict a function on its keys.          *)
(***************************************************************************)
EXTENDS Integers, Sequences, FiniteSets, TLC

VARIABLES
    entry,                      \* the operation this behaviour runs
    today,                      \* datetime.now().date()
    customers,                  \* argument: the caller's customer list
    work_schedule,              \* argument: weekday -> optional hours
    protect_near_dates,         \* argument of create_2_week_schedule
    max_hours,                  \* argument of _assign_customers_to_day
    pc,                         \* position in the running operation
    i,                          \* loop index of the day loop
    customers_needing_service,  \* the pool (optimiser.py:225, 293)
    schedule,                   \* dict date -> day entry
    unscheduled_customers,      \* result field (optimiser.py:305)
    daily_customers,            \* history: date -> the packer's selection
    initial_pool,               \* history: the pool right after scoring
    processed,                  \* history: dates processed so far, in order
    solver_found,               \* history: date -> whether the solver returned a solution
    cleaner_has_start,          \* argument: 'start_location' in cleaner
    jobs_by_day,                \* scheduler.py:215, dict date -> jobs
    full_schedule,              \* scheduler.py:217, dict date -> day entry
    assigned_customers,         \* scheduler.py:218, set of customer ids
    LEARNING_ENABLED,           \* optimiser.py:15-25, set when the module is loaded
    job_times,                  \* the job_times table: customer id -> lookup outcome
    fallback,                   \* argument of get_learned_duration
    cleaner_start_location,     \* argument: where the cleaner starts the day
    enhanced_customers,         \* optimiser.py:219
    learned_duration,           \* result of get_learned_duration
    day_route,                  \* result of _optimize_daily_route
    total_time_saved,           \* optimiser.py:229, 288
    total_fuel_saved,           \* optimiser.py:230, 289
    summary,                    \* result field 'summary' (optimiser.py:297)
    time_savings_summary,       \* result field 'time_savings_summary' (298-304)
    response,                   \* what the endpoint of app.py answers
    heap,                       \* the Python objects: address -> dict or list
    runs,                       \* the local variables of two runs side by side
    work_schedules,             \* the rows of the table work_schedules
    user_assignments,           \* the rows of the table user_assignments
    saves,                      \* the calls of save_optimized_schedule
    tables_before               \* history: both tables before the calls

optimiser_vars == << protect_near_dates, customers_needing_service, schedule,
                     unscheduled_customers, daily_customers, initial_pool,
                     solver_found >>

scheduler_vars == << cleaner_has_start, jobs_by_day, full_schedule,
                     assigned_customers >>

input_vars == << entry, today, customers, work_schedule, max_hours,
                 LEARNING_ENABLED, job_times, fallback, cleaner_start_location >>

\* results of the operations that are also run on their own
unit_vars == << enhanced_customers, learned_duration, day_route,
               total_time_saved, total_fuel_saved, summary,
               time_savings_summary, response >>

\* the objects and the runs that work on them
heap_vars == << heap, runs >>

\* the tables of the database and the calls that write to them
db_vars == << work_schedules, user_assignments, saves, tables_before >>

vars == << input_vars, pc, i, processed, optimiser_vars, scheduler_vars, unit_vars,
           heap_vars, db_vars, db_vars >>

---------------------------------------------------------------------------
(* Bounds of the model *)

Today == 100
MaxCustomers == 3
MaxPool == 3
MaxScored == 2

(* Program constants *)

HorizonDays == 8
ProtectedDays == 2

---------------------------------------------------------------------------
(* Generic helpers *)

Bad == << >>
IsOk(x) == x # << >>
Val(x) == x[1]

Max(a, b) == IF a >= b THEN a ELSE b

Range(s) == { s[k] : k \in 1..Len(s) }

RECURSIVE SeqSum(_)
SeqSum(s) == IF s = << >> THEN 0 ELSE Head(s) + SeqSum(Tail(s))

SeqsUpTo(S, n) == UNION { [1..k -> S] : k \in 0..n }

Ids(s) == [k \in 1..Len(s) |-> s[k].id]

EmptyDict == [x \in {} |-> x]

Put(d, k, v) == [x \in (DOMAIN d) \cup {k} |-> IF x = k THEN v ELSE d[x]]

\* round(a / b) for b > 0 as Python rounds: to the nearest integer, a tie to
\* the even one
RoundDiv(a, b) ==
    LET q == a \div b
        r == a - q * b
    IN  IF 2 * r < b THEN q
        ELSE IF 2 * r > b THEN q + 1
        ELSE IF q % 2 = 0 THEN q ELSE q + 1

---------------------------------------------------------------------------
(* optimiser.py *)

\* the default of the fallback parameter (line 27) and of
\* customer.get('estimated_duration', 30) (line 71)
DEFAULT_DURATION == 30

\* .limit(10), line 38
QUERY_LIMIT == 10

\* the rows the query of lines 34-39 returns: the newest QUERY_LIMIT of the
\* customer's rows, which are kept newest first
Limit(rows, n) == IF Len(rows) <= n THEN rows ELSE SubSeq(rows, 1, n)

\* int(a / b) for b > 0: the fraction is dropped, towards zero
TruncDiv(a, b) == IF a >= 0 THEN a \div b ELSE 0 - ((0 - a) \div b)

RECURSIVE InsertAscending(_, _)
InsertAscending(x, s) ==
    IF s = << >> THEN << x >>
    ELSE IF x < Head(s) THEN << x >> \o s
    ELSE << Head(s) >> \o InsertAscending(x, Tail(s))

\* sorted(data), as statistics.median does first
RECURSIVE SortAscending(_)
SortAscending(s) ==
    IF s = << >> THEN << >>
    ELSE InsertAscending(s[Len(s)], SortAscending(SubSeq(s, 1, Len(s) - 1)))

\* twice statistics.median(data): the middle value counted twice for an odd
\* length, the sum of the two middle values for an even length
TwiceMedian(data) ==
    LET n      == Len(data)
        sorted == SortAscending(data)
    IN  IF n % 2 = 1 THEN 2 * sorted[(n + 1) \div 2]
        ELSE sorted[n \div 2] + sorted[n \div 2 + 1]

\* the window taken for the first sample alone
FirstOfTwo(durations) == durations[1]

\* line 50: int(sum(durations) / 2)
MeanOfTwo(durations) == TruncDiv(SeqSum(durations), 2)

\* line 52: int(statistics.median(durations))
MedianOf(durations) == TruncDiv(TwiceMedian(durations), 2)

\* a query without .limit(10)
Unlimited(rows, n) == rows

\* lines 34-39 for one customer: the rows of result.data
QueryJobTimes(rows, n) == Limit(rows, n)

\* a lookup without samples that answers the default instead of the fallback
GetLearnedDurationDefault(customer_id, fallback_duration) ==
    IF ~LEARNING_ENABLED THEN fallback_duration
    ELSE IF job_times[customer_id].raises THEN fallback_duration
    ELSE LET durations == QueryJobTimes(job_times[customer_id].rows, QUERY_LIMIT)
         IN  IF durations = << >> THEN << DEFAULT_DURATION >>
             ELSE IF Len(durations) = 1 THEN << durations[1] >>
             ELSE IF Len(durations) = 2 THEN << MeanOfTwo(durations) >>
             ELSE << MedianOf(durations) >>

\* get_learned_duration(customer_id, fallback); an exception anywhere in the
\* try block (lines 32-52) is caught and answers the fallback (lines 54-56)
GetLearnedDuration(customer_id, fallback_duration) ==
    IF ~LEARNING_ENABLED THEN fallback_duration
    ELSE IF job_times[customer_id].raises THEN fallback_duration
    ELSE LET durations == QueryJobTimes(job_times[customer_id].rows, QUERY_LIMIT)
         IN  IF durations = << >> THEN fallback_duration
             ELSE IF Len(durations) = 1 THEN << durations[1] >>
             ELSE IF Len(durations) = 2 THEN << MeanOfTwo(durations) >>
             ELSE << MedianOf(durations) >>

\* the body of the loop of enhance_customers_with_learning (lines 67-86): the
\* copy of the customer with its duration and the source of that duration
EnhanceCustomer(customer) ==
    LET original_duration == customer.estimated_duration
        learned           == GetLearnedDuration(customer.id, original_duration)
    IN  IF learned # original_duration
        THEN Put(Put(customer, "estimated_duration", learned),
                 "duration_source", "learned")
        ELSE Put(Put(customer, "estimated_duration", original_duration),
                 "duration_source", "estimated")

\* enhance_customers_with_learning(customers)
EnhanceCustomersWithLearning(cs) ==
    IF ~LEARNING_ENABLED THEN cs
    ELSE [k \in 1..Len(cs) |-> EnhanceCustomer(cs[k])]

\* line 308: len([c for c in enhanced_customers
\*                if c.get('duration_source') == 'learned'])
CustomersWithLearnedData(enhanced) ==
    Len(SelectSeq(enhanced,
                  LAMBDA c : /\ "duration_source" \in DOMAIN c
                             /\ c.duration_source = "learned"))

\* _get_working_days: keeps the weekday keys whose hours are not None and > 0
GetWorkingDays(ws) ==
    LET keys == { w \in DOMAIN ws : IsOk(ws[w]) /\ Val(ws[w]) > 0 }
    IN  [w \in keys |-> Val(ws[w])]

\* a sign slip: how long until the customer is due
DaysOverdueSwapped(days_since_cleaned, frequency_days) ==
    frequency_days - days_since_cleaned

\* line 344
DaysOverdue(days_since_cleaned, frequency_days) ==
    days_since_cleaned - frequency_days

\* line 345: 0 if not due yet, positive if overdue
UrgencyScore(days_overdue) == Max(0, days_overdue)

\* the body of the try block of _filter_customers_by_urgency for one customer
UrgencyRecord(c, t) ==
    LET last_cleaned       == Val(c.last_cleaned)
        days_since_cleaned == t - last_cleaned
        frequency_days     == Val(c.frequency_days)
        days_overdue       == DaysOverdue(days_since_cleaned, frequency_days)
        urgency_score      == UrgencyScore(days_overdue)
        customer_copy      == c
    IN  Put(Put(Put(Put(customer_copy,
                        "days_since_cleaned", days_since_cleaned),
                    "days_overdue", days_overdue),
                "urgency_score", urgency_score),
            "next_due_date", last_cleaned + frequency_days)

\* strptime or int(...) raised ValueError, or the key is missing
ScoringRaises(c) == ~IsOk(c.last_cleaned) \/ ~IsOk(c.frequency_days)

\* the fallback key of line 364, -urgency_score alone
KeyLessByScoreOnly(a, b) ==
    a.urgency_score > b.urgency_score

\* the sort key (-urgency_score, next_due_date), compared as Python tuples
KeyLess(a, b) ==
    \/ a.urgency_score > b.urgency_score
    \/ a.urgency_score = b.urgency_score /\ a.next_due_date < b.next_due_date

\* sorted(...) is stable: an element goes after every element not greater
RECURSIVE InsertSorted(_, _)
InsertSorted(x, s) ==
    IF s = << >> THEN << x >>
    ELSE IF KeyLess(x, Head(s)) THEN << x >> \o s
    ELSE << Head(s) >> \o InsertSorted(x, Tail(s))

RECURSIVE SortedByUrgency(_)
SortedByUrgency(s) ==
    IF s = << >> THEN << >>
    ELSE InsertSorted(s[Len(s)], SortedByUrgency(SubSeq(s, 1, Len(s) - 1)))

\* a loop that ends at the first customer that raises, instead of going on
RECURSIVE ScoreAllUntilError(_, _)
ScoreAllUntilError(cs, t) ==
    IF cs = << >> THEN << >>
    ELSE IF ~IsOk(Head(cs).last_cleaned) \/ ~IsOk(Head(cs).frequency_days) THEN << >>
    ELSE << UrgencyRecord(Head(cs), t) >> \o ScoreAllUntilError(Tail(cs), t)

\* the for loop of lines 337-356: a customer that raises is skipped (continue)
RECURSIVE ScoreAll(_, _)
ScoreAll(cs, t) ==
    IF cs = << >> THEN << >>
    ELSE IF ScoringRaises(Head(cs)) THEN ScoreAll(Tail(cs), t)
    ELSE << UrgencyRecord(Head(cs), t) >> \o ScoreAll(Tail(cs), t)

FilterCustomersByUrgency(cs, t) == SortedByUrgency(ScoreAll(cs, t))

\* a check of the customer's own duration, forgetting the running total
FitsAlone(total_minutes, duration, max_minutes) ==
    duration <= max_minutes

\* _assign_customers_to_day, line 378: the customer fits in the remaining time
Fits(total_minutes, duration, max_minutes) ==
    total_minutes + duration <= max_minutes

\* a stop only when the whole budget is used, without the 10% reserve
ReachedFullBudget(total_minutes, max_minutes) ==
    total_minutes >= max_minutes

\* line 383: total_minutes >= max_minutes * 0.9, in exact arithmetic
ReachedBuffer(total_minutes, max_minutes) ==
    10 * total_minutes >= 9 * max_minutes

\* a walk that ends at the first customer that does not fit
RECURSIVE AssignLoopUntilMisfit(_, _, _, _)
AssignLoopUntilMisfit(pool, max_minutes, assigned, total_minutes) ==
    IF pool = << >> THEN assigned
    ELSE LET customer == Head(pool)
         IN  IF ~IsOk(customer.estimated_duration)
             THEN AssignLoopUntilMisfit(Tail(pool), max_minutes, assigned,
                                        total_minutes)
             ELSE LET duration == Val(customer.estimated_duration)
                  IN  IF total_minutes + duration <= max_minutes
                      THEN IF 10 * (total_minutes + duration) >= 9 * max_minutes
                           THEN Append(assigned, customer)
                           ELSE AssignLoopUntilMisfit(Tail(pool), max_minutes,
                                                      Append(assigned, customer),
                                                      total_minutes + duration)
                      ELSE assigned

\* the for loop of _assign_customers_to_day (lines 373-387); a duration that
\* int(...) cannot parse is skipped by the except branch
RECURSIVE AssignLoop(_, _, _, _)
AssignLoop(pool, max_minutes, assigned, total_minutes) ==
    IF pool = << >> THEN assigned
    ELSE LET customer == Head(pool)
         IN  IF ~IsOk(customer.estimated_duration)
             THEN AssignLoop(Tail(pool), max_minutes, assigned, total_minutes)
             ELSE LET duration == Val(customer.estimated_duration)
                  IN  IF Fits(total_minutes, duration, max_minutes)
                      THEN IF ReachedBuffer(total_minutes + duration, max_minutes)
                           THEN Append(assigned, customer)
                           ELSE AssignLoop(Tail(pool), max_minutes,
                                           Append(assigned, customer),
                                           total_minutes + duration)
                      ELSE AssignLoop(Tail(pool), max_minutes, assigned,
                                      total_minutes)

\* the pool walked from its last customer to its first
AssignFromEndOfPool(pool, date, hours) ==
    AssignLoop([k \in 1..Len(pool) |-> pool[Len(pool) + 1 - k]],
               hours * 60, << >>, 0)

\* _assign_customers_to_day(customers, date, max_hours); date is not read
AssignCustomersToDay(pool, date, hours) ==
    AssignLoop(pool, hours * 60, << >>, 0)

\* What routing.SolveWithParameters may hand back for n nodes, one vehicle and
\* depot 0: None, or an assignment whose route leaves the depot and visits
\* every other node once (no node is optional in the routing model).
PermutationsOf(S) ==
    { p \in [1..Cardinality(S) -> S] :
        \A a, b \in 1..Cardinality(S) : p[a] = p[b] => a = b }

\* The visits after the depot: every order of the nodes 1..n-1 while they can
\* be enumerated, and for longer routes the two orders that differ most, the
\* order of the input and its reverse.
SolverRoutes(n) ==
    IF n - 1 <= MaxCustomers + 1 THEN PermutationsOf(1..(n - 1))
    ELSE { [k \in 1..(n - 1) |-> k], [k \in 1..(n - 1) |-> n - k] }

SolverOutcomes(n) ==
    { [found |-> FALSE, route |-> << >>] } \cup
    { [found |-> TRUE, route |-> << 0 >> \o p] : p \in SolverRoutes(n) }

\* lines 194-200: the order read off the solution, empty without a solution
OrderFromSolution(solution) ==
    IF solution.found THEN solution.route ELSE << >>

\* optimize_route(locations) for n locations
OptimizeRoute(n, solution) ==
    IF n <= 1 THEN [k \in 1..n |-> k - 1]
    ELSE OrderFromSolution(solution)

\* line 432: customer.get('payment_method', 'card'); an absent key is << >>
PaymentMethodOf(customer) ==
    IF IsOk(customer.payment_method) THEN Val(customer.payment_method)
    ELSE "card"

\* _optimize_daily_route, lines 423-437: the customers in route order.  The
\* dict {**customer, 'route_order': .., 'payment_method': ..} is the record of
\* the customer's own keys (customer) and of the two keys written over them.
\* Index 0 is the cleaner's start and is skipped.
RECURSIVE BuildOptimized(_, _, _)
BuildOptimized(order, cs, optimized_customers) ==
    IF order = << >> THEN optimized_customers
    ELSE LET customer_idx == Head(order) - 1
         IN  IF 0 <= customer_idx /\ customer_idx < Len(cs)
             THEN BuildOptimized(Tail(order), cs,
                     Append(optimized_customers,
                            [ customer    |-> cs[customer_idx + 1],
                              route_order |-> Len(optimized_customers) + 1,
                              payment_method |->
                                  PaymentMethodOf(cs[customer_idx + 1]) ]))
             ELSE BuildOptimized(Tail(order), cs, optimized_customers)

SkipFirst(order) == IF order = << >> THEN << >> ELSE Tail(order)

\* the totals taken over the customers handed in, not over those in the route
OptimizeDailyRouteTotalsOfInput(cs, solution) ==
    LET route_order == OptimizeRoute(Len(cs) + 1, solution)
    IN  [ customers      |-> BuildOptimized(SkipFirst(route_order), cs, << >>),
          order          |-> route_order,
          total_duration |->
              SeqSum([k \in 1..Len(cs) |-> Val(cs[k].estimated_duration)]),
          total_revenue  |-> SeqSum([k \in 1..Len(cs) |-> cs[k].price]) ]

\* _optimize_daily_route(customers, cleaner_start_location), customers non-empty
OptimizeDailyRoute(cs, solution) ==
    LET route_order == OptimizeRoute(Len(cs) + 1, solution)
        optimized   == BuildOptimized(SkipFirst(route_order), cs, << >>)
    IN  [ customers      |-> optimized,
          order          |-> route_order,
          total_duration |->
              SeqSum([k \in 1..Len(optimized) |->
                         Val(optimized[k].customer.estimated_duration)]),
          total_revenue  |->
              SeqSum([k \in 1..Len(optimized) |-> optimized[k].customer.price]) ]

\* line 570: average speed in km/h; line 576: minutes of buffer per stop
AVG_SPEED_KMH == 25
BUFFER_MINUTES_PER_STOP == 2

\* geodesic(a, b).meters for two places on one straight road, each given by
\* its kilometre mark
Geodesic(a, b) == 1000 * (IF a >= b THEN a - b ELSE b - a)

\* locations of _calculate_actual_travel_time (lines 539-541) as a function on
\* the node indices 0..n: the start, then the customers in input order
LocationsOf(cs, start) ==
    [node \in 0..Len(cs) |-> IF node = 0 THEN start ELSE cs[node].location]

\* lines 551-565: the metres along route_order, plus the way back to the start
\* from its last node
TotalDistanceMeters(cs, start, route_order) ==
    LET locations == LocationsOf(cs, start)
        InRange(idx) == 0 <= idx /\ idx <= Len(cs)
        legs == [k \in 1..(Len(route_order) - 1) |->
                   IF InRange(route_order[k]) /\ InRange(route_order[k + 1])
                   THEN Geodesic(locations[route_order[k]],
                                 locations[route_order[k + 1]])
                   ELSE 0]
        back == IF Len(route_order) > 1 /\ InRange(route_order[Len(route_order)])
                THEN Geodesic(locations[route_order[Len(route_order)]], start)
                ELSE 0
    IN  SeqSum(legs) + back

\* _calculate_actual_travel_time for a given route_order, in tenths of a
\* minute: metres / (AVG_SPEED_KMH * 1000 / 60) plus the buffer per customer.
\* With whole kilometres the tenths are whole numbers, so round(x, 1) is exact.
TravelTimeTenths(cs, start, route_order) ==
    IF cs = << >> THEN 0
    ELSE (TotalDistanceMeters(cs, start, route_order) * 60 * 10)
             \div (AVG_SPEED_KMH * 1000)
         + BUFFER_MINUTES_PER_STOP * 10 * Len(cs)

\* line 548: list(range(len(locations)))
InputOrder(cs) == [k \in 1..(Len(cs) + 1) |-> k - 1]

\* calculate_time_savings(customers, cleaner_start_location); optimize_route is
\* called again on the same locations and gives the day's solution again.
\* Minutes are in tenths of a minute, hours in hundredths of an hour, pounds
\* in pence and percentages in tenths of a percent, so that round(x, 1) and
\* round(x, 2) are roundings to a whole number.
CalculateTimeSavings(cs, start, solution) ==
    IF Len(cs) < 2
    THEN [ time_savings_minutes |-> 0, time_savings_hours |-> 0,
           fuel_savings_estimate_gbp |-> 0,
           efficiency_improvement_percent |-> 0 ]
    ELSE LET optimized_travel_time ==
                 TravelTimeTenths(cs, start, OptimizeRoute(Len(cs) + 1, solution))
             unoptimized_travel_time ==
                 TravelTimeTenths(cs, start, InputOrder(cs))
             time_saved_minutes ==
                 unoptimized_travel_time - optimized_travel_time
         IN  [ optimized_travel_time_minutes   |-> optimized_travel_time,
               unoptimized_travel_time_minutes |-> unoptimized_travel_time,
               time_savings_minutes |-> time_saved_minutes,
               time_savings_hours   |-> RoundDiv(time_saved_minutes, 6),
               fuel_savings_estimate_gbp |-> 5 * time_saved_minutes,
               efficiency_improvement_percent |->
                   RoundDiv(1000 * time_saved_minutes,
                            Max(unoptimized_travel_time, 10)),
               extra_customers_possible |->
                   IF time_saved_minutes > 0
                   THEN time_saved_minutes \div 450 ELSE 0 ]

\* lines 397-408: the result of _optimize_daily_route without customers
EmptyDayRoute ==
    [ customers |-> << >>, order |-> << >>, total_duration |-> 0,
      total_revenue |-> 0, travel_time |-> 0,
      time_savings |-> [ time_savings_minutes |-> 0,
                         efficiency_improvement_percent |-> 0 ] ]

\* lines 410-452: the result of _optimize_daily_route with its travel time and
\* its time savings
DayRouteWithSavings(cs, start, solution) ==
    LET route == OptimizeDailyRoute(cs, solution)
    IN  [ customers      |-> route.customers,
          order          |-> route.order,
          total_duration |-> route.total_duration,
          total_revenue  |-> route.total_revenue,
          travel_time    |-> TravelTimeTenths(cs, start, route.order),
          time_savings   |-> CalculateTimeSavings(cs, start, solution) ]

\* the removal left out: the pool stays as it was
RemoveNothing(pool, assigned) == pool

\* the assigned customers taken to be the head of the pool
RemoveAssignedByPosition(pool, assigned) ==
    SubSeq(pool, Len(assigned) + 1, Len(pool))

\* line 293: the pool without the customers whose id was assigned
RemoveAssigned(pool, assigned) ==
    SelectSeq(pool, LAMBDA c : c.id \notin Range(Ids(assigned)))

\* lines 239-254: the entry of a protected day
ProtectedEntry(date) ==
    [ date |-> date, max_hours |-> 0, customers |-> << >>, route_order |-> << >>,
      total_duration_minutes |-> 0, total_revenue |-> 0,
      estimated_travel_time |-> 0,
      time_savings |-> [ time_savings_minutes |-> 0,
                         efficiency_improvement_percent |-> 0 ],
      protected |-> TRUE,
      message |-> "Protected - Cannot optimize (too close to cleaner schedule)" ]

\* lines 275-285: the entry of a day with customers; the keys 'protected' and
\* 'message' are absent there, modelled as FALSE and ""
RouteEntry(date, hours, optimized_route) ==
    [ date |-> date, max_hours |-> hours,
      customers |-> optimized_route.customers,
      route_order |-> optimized_route.order,
      total_duration_minutes |-> optimized_route.total_duration,
      total_revenue |-> optimized_route.total_revenue,
      estimated_travel_time |-> optimized_route.travel_time,
      time_savings |-> optimized_route.time_savings,
      protected |-> FALSE, message |-> "" ]

---------------------------------------------------------------------------
(* create_2_week_schedule as a state machine: one step per day of the loop *)

Weekday(date) == date % 7

CurrentDate == today + i

IsProtected == protect_near_dates /\ i < ProtectedDays

\* create_2_week_schedule runs when it is called directly or by an endpoint
\* of app.py (lines 62, 190)
Callers ==
    { "create_2_week_schedule", "create_1week_schedule",
      "create_schedule_from_express" }

InLoop == entry \in Callers /\ pc = "loop" /\ i < HorizonDays

HasHours == Weekday(CurrentDate) \in DOMAIN GetWorkingDays(work_schedule)

\* lines 219-231: the durations are enhanced, then the pool is scored
Start ==
    /\ entry \in Callers /\ pc = "start"
    /\ enhanced_customers' = EnhanceCustomersWithLearning(customers)
    /\ customers_needing_service' = FilterCustomersByUrgency(enhanced_customers', today)
    /\ initial_pool' = customers_needing_service'
    /\ pc' = "loop"
    /\ i' = 0
    /\ total_time_saved' = 0
    /\ total_fuel_saved' = 0
    /\ UNCHANGED << input_vars, heap_vars, db_vars, learned_duration, day_route, summary,
                    time_savings_summary, response,
                    scheduler_vars, solver_found, processed,
                    protect_near_dates, schedule, unscheduled_customers,
                    daily_customers >>

\* lines 238-255
ProtectedDay ==
    /\ InLoop /\ IsProtected
    /\ schedule' = Put(schedule, CurrentDate, ProtectedEntry(CurrentDate))
    /\ processed' = Append(processed, CurrentDate)
    /\ i' = i + 1
    /\ UNCHANGED << input_vars, heap_vars, db_vars, unit_vars, scheduler_vars, solver_found, pc, protect_near_dates,
                    customers_needing_service, unscheduled_customers,
                    daily_customers, initial_pool >>

\* line 257 false: the weekday has no positive hours, the body is skipped
DayOff ==
    /\ InLoop /\ ~IsProtected /\ ~HasHours
    /\ processed' = Append(processed, CurrentDate)
    /\ i' = i + 1
    /\ UNCHANGED << input_vars, heap_vars, db_vars, unit_vars, scheduler_vars, solver_found, pc, protect_near_dates,
                    customers_needing_service, schedule,
                    unscheduled_customers, daily_customers, initial_pool >>

Packed ==
    AssignCustomersToDay(customers_needing_service, CurrentDate,
                         GetWorkingDays(work_schedule)[Weekday(CurrentDate)])

\* lines 257-267 with daily_customers empty: nothing is recorded
WorkingDayEmpty ==
    /\ InLoop /\ ~IsProtected /\ HasHours
    /\ Packed = << >>
    /\ daily_customers' = Put(daily_customers, CurrentDate, << >>)
    /\ processed' = Append(processed, CurrentDate)
    /\ i' = i + 1
    /\ UNCHANGED << input_vars, heap_vars, db_vars, unit_vars, scheduler_vars, solver_found, pc, protect_near_dates,
                    customers_needing_service, schedule,
                    unscheduled_customers, initial_pool >>

\* lines 257-293 with daily_customers non-empty
WorkingDayRoute ==
    /\ InLoop /\ ~IsProtected /\ HasHours
    /\ Packed # << >>
    /\ \E solution \in SolverOutcomes(Len(Packed) + 1) :
          LET optimized_route ==
                  DayRouteWithSavings(Packed, cleaner_start_location, solution)
          IN  /\ schedule' = Put(schedule, CurrentDate,
                                 RouteEntry(CurrentDate,
                                            GetWorkingDays(work_schedule)[Weekday(CurrentDate)],
                                            optimized_route))
              /\ total_time_saved' = total_time_saved +
                     optimized_route.time_savings.time_savings_minutes
              /\ total_fuel_saved' = total_fuel_saved +
                     optimized_route.time_savings.fuel_savings_estimate_gbp
              /\ solver_found' = Put(solver_found, CurrentDate, solution.found)
    /\ customers_needing_service' = RemoveAssigned(customers_needing_service, Packed)
    /\ daily_customers' = Put(daily_customers, CurrentDate, Packed)
    /\ processed' = Append(processed, CurrentDate)
    /\ i' = i + 1
    /\ UNCHANGED << input_vars, heap_vars, db_vars, enhanced_customers, learned_duration, day_route,
                    summary, time_savings_summary, response,
                    scheduler_vars, pc, protect_near_dates,
                    unscheduled_customers, initial_pool >>

\* list(sched.values()): the day entries in the order they were inserted; the
\* keys of the schedule are dates of the horizon, inserted in date order
ScheduleValues(sched) ==
    LET dates == SelectSeq([k \in 1..HorizonDays |-> today + k - 1],
                           LAMBDA date : date \in DOMAIN sched)
    IN  [k \in 1..Len(dates) |-> sched[dates[k]]]

\* line 303: sum([len(day['customers']) for day in schedule.values()])
ScheduledCustomers(sched) ==
    LET days == ScheduleValues(sched)
    IN  SeqSum([k \in 1..Len(days) |-> Len(days[k].customers)])

\* _create_schedule_summary(schedule), lines 455-475.  Hours are in tenths of
\* an hour, average_customers_per_day in tenths, average_revenue_per_day in
\* pence.
CreateScheduleSummary(sched) ==
    LET days            == ScheduleValues(sched)
        total_customers ==
            SeqSum([k \in 1..Len(days) |-> Len(days[k].customers)])
        total_revenue   ==
            SeqSum([k \in 1..Len(days) |-> days[k].total_revenue])
        total_minutes   ==
            SeqSum([k \in 1..Len(days) |-> days[k].total_duration_minutes])
        working_days    == Len(days)
    IN  [ total_customers_scheduled |-> total_customers,
          total_revenue             |-> total_revenue,
          total_work_hours          |-> RoundDiv(total_minutes, 6),
          working_days              |-> working_days,
          average_customers_per_day |->
              RoundDiv(10 * total_customers, Max(working_days, 1)),
          average_revenue_per_day   |->
              RoundDiv(100 * total_revenue, Max(working_days, 1)) ]

\* line 303: the divisor of weekly_efficiency_gain is zero; the conditional
\* only looks at whether the schedule has entries
WeeklyGainDividesByZero(sched) ==
    sched # EmptyDict /\ ScheduledCustomers(sched) * 45 = 0

\* lines 298-304, when the division of line 303 is defined.  The percentage
\* is the number before the '%' sign, in tenths of a percent.
TimeSavingsSummary(sched, time_saved, fuel_saved) ==
    [ total_time_saved_minutes |-> time_saved,
      total_time_saved_hours   |-> RoundDiv(time_saved, 6),
      total_fuel_saved_gbp     |-> fuel_saved,
      extra_customers_per_week |->
          IF time_saved > 0 THEN time_saved \div 450 ELSE 0,
      weekly_efficiency_gain   |->
          IF sched # EmptyDict
          THEN RoundDiv(100 * time_saved, ScheduledCustomers(sched) * 45)
          ELSE 0 ]

AfterLoop == entry \in Callers /\ pc = "loop" /\ i = HorizonDays

\* lines 295-313: the result is built and returned
Finish ==
    /\ AfterLoop
    /\ ~WeeklyGainDividesByZero(schedule)
    /\ summary' = CreateScheduleSummary(schedule)
    /\ time_savings_summary' =
           TimeSavingsSummary(schedule, total_time_saved, total_fuel_saved)
    /\ unscheduled_customers' = customers_needing_service
    /\ pc' = "done"
    /\ UNCHANGED << input_vars, heap_vars, db_vars, enhanced_customers, learned_duration, day_route,
                    total_time_saved, total_fuel_saved, response,
                    scheduler_vars, solver_found, i, processed,
                    protect_near_dates, customers_needing_service, schedule,
                    daily_customers, initial_pool >>

\* lines 295-303: ZeroDivisionError while the result is built; nothing is
\* returned
FinishRaise ==
    /\ AfterLoop
    /\ WeeklyGainDividesByZero(schedule)
    /\ pc' = "raised"
    /\ UNCHANGED << input_vars, heap_vars, db_vars, unit_vars, scheduler_vars, solver_found, i,
                    processed, optimiser_vars >>

---------------------------------------------------------------------------
(* scheduler.py: WindowCleanerScheduler *)

JOB_TIME_MINUTES == 30
TRAVEL_TIME_MINUTES == 7
MIN_JOBS == 15
MAX_JOBS == 23
BUFFER_DAYS == 14
FULL_HORIZON == 7

Min(a, b) == IF a <= b THEN a ELSE b

\* the jobs that fit when the travel between them takes no time
MaxJobsWithoutTravel(work_hours) ==
    IF work_hours <= 0 THEN 0
    ELSE Min(MAX_JOBS, Max(0, (work_hours * 60) \div JOB_TIME_MINUTES))

\* calculate_max_jobs_for_hours; int(x / y) truncates, and x, y are >= 0 here
CalculateMaxJobsForHours(work_hours) ==
    IF work_hours <= 0 THEN 0
    ELSE LET total_minutes   == work_hours * 60
             minutes_per_job == JOB_TIME_MINUTES + TRAVEL_TIME_MINUTES
             max_jobs        == total_minutes \div minutes_per_job
         IN  Min(MAX_JOBS, Max(0, max_jobs))

\* get_daily_work_hours: the weekday's hours, 0.0 when the entry is None
GetDailyWorkHours(ws, date) ==
    IF IsOk(ws[date % 7]) THEN Val(ws[date % 7]) ELSE 0

\* can_optimize_date: target_date not in [today, tomorrow]
CanOptimizeDate(target_date, t) == target_date \notin { t, t + 1 }

\* calculate_cleaning_window
CalculateCleaningWindow(last_cleaned, frequency_days) ==
    LET next_clean_date == last_cleaned + frequency_days
    IN  [ next_clean_date |-> next_clean_date,
          window_start    |-> next_clean_date - BUFFER_DAYS,
          window_end      |-> next_clean_date + BUFFER_DAYS ]

\* calculate_priority: base_priority * frequency_factor, kept as the exact
\* fraction num / den with den > 0.  max(1, 30 / f) is 30 / f for 0 < f < 30
\* and 1 for f >= 30 or f < 0; f = 0 raises ZeroDivisionError.
CalculatePriority(frequency_days, next_clean_date, t) ==
    LET days_until_due == next_clean_date - t
        base_priority  == Max(1, 30 - days_until_due)
    IN  IF frequency_days > 0 /\ frequency_days < 30
        THEN [ num |-> base_priority * 30, den |-> frequency_days ]
        ELSE [ num |-> base_priority, den |-> 1 ]

PriorityGreater(a, b) == a.num * b.den > b.num * a.den

\* strptime raises on the date, or timedelta on the frequency
WindowRaises(c) == ~IsOk(c.last_cleaned) \/ ~IsOk(c.frequency_days)

\* the date is not after the window; the start of the window is not looked at
FeasibleBeforeEnd(c, date) ==
    date <= CalculateCleaningWindow(Val(c.last_cleaned),
                                    Val(c.frequency_days)).window_end

\* a customer's window covers the date (scheduler.py:102)
Feasible(c, date) ==
    LET window == CalculateCleaningWindow(Val(c.last_cleaned), Val(c.frequency_days))
    IN  window.window_start <= date /\ date <= window.window_end

\* calculate_priority divides by frequency_days when the customer is feasible
PriorityRaises(c, t) ==
    /\ Val(c.frequency_days) = 0
    /\ \E days_ahead \in 0..(FULL_HORIZON - 1) : Feasible(c, t + days_ahead)

JobOf(c, t) ==
    LET window == CalculateCleaningWindow(Val(c.last_cleaned), Val(c.frequency_days))
    IN  [ customer_id    |-> c.id,
          priority       |-> CalculatePriority(Val(c.frequency_days),
                                               window.next_clean_date, t),
          next_due       |-> window.next_clean_date,
          days_until_due |-> window.next_clean_date - t ]

\* group_jobs_by_feasible_days: per date, the feasible customers' jobs in the
\* order of the customer list; a date with no job has no key
GroupJobsByFeasibleDays(cs, t) ==
    LET dates == { t + days_ahead : days_ahead \in 0..(FULL_HORIZON - 1) }
        JobsOn(date) ==
            LET feasible == SelectSeq(cs, LAMBDA c : Feasible(c, date))
            IN  [k \in 1..Len(feasible) |-> JobOf(feasible[k], t)]
    IN  [date \in { d \in dates : JobsOn(d) # << >> } |-> JobsOn(date)]

GroupingRaises(cs, t) ==
    \E k \in 1..Len(cs) : WindowRaises(cs[k]) \/ PriorityRaises(cs[k], t)

\* sorted(day_jobs, key=priority, reverse=True): descending and stable
RECURSIVE InsertByPriority(_, _)
InsertByPriority(x, s) ==
    IF s = << >> THEN << x >>
    ELSE IF PriorityGreater(x.priority, Head(s).priority) THEN << x >> \o s
    ELSE << Head(s) >> \o InsertByPriority(x, Tail(s))

RECURSIVE SortedByPriority(_)
SortedByPriority(s) ==
    IF s = << >> THEN << >>
    ELSE InsertByPriority(s[Len(s)], SortedByPriority(SubSeq(s, 1, Len(s) - 1)))

\* select_jobs_for_day
SelectJobsForDay(day_jobs, min_jobs_per_day, max_jobs_per_day) ==
    IF day_jobs = << >> THEN << >>
    ELSE LET sorted_jobs    == SortedByPriority(day_jobs)
             available_jobs == Len(sorted_jobs)
         IN  IF available_jobs >= min_jobs_per_day
             THEN SubSeq(sorted_jobs, 1, Min(max_jobs_per_day, available_jobs))
             ELSE sorted_jobs

\* optimize_daily_route with 'start_location' in cleaner (lines 167-183): the
\* jobs in route order, the start location (index 0) left out
RECURSIVE JobsInRoute(_, _, _)
JobsInRoute(route_indices, jobs, optimized_jobs) ==
    IF route_indices = << >> THEN optimized_jobs
    ELSE IF Head(route_indices) > 0
         THEN JobsInRoute(Tail(route_indices), jobs,
                 Append(optimized_jobs,
                        [ customer_id |-> jobs[Head(route_indices)].customer_id,
                          order       |-> Len(optimized_jobs) + 1 ]))
         ELSE JobsInRoute(Tail(route_indices), jobs, optimized_jobs)

\* optimize_daily_route without a start location (lines 186-193)
JobsInOrder(route_indices, jobs) ==
    [idx \in 1..Len(route_indices) |->
        [ customer_id |-> jobs[route_indices[idx] + 1].customer_id,
          order       |-> idx ]]

\* the number of locations optimize_daily_route hands to optimize_route
RouteNodes(jobs, has_start) == IF has_start THEN Len(jobs) + 1 ELSE Len(jobs)

\* optimize_daily_route(jobs, cleaner), jobs non-empty
SchedulerOptimizeDailyRoute(jobs, has_start, solution) ==
    IF Len(jobs) = 1
    THEN << [ customer_id |-> jobs[1].customer_id, order |-> 1 ] >>
    ELSE LET route_indices == OptimizeRoute(RouteNodes(jobs, has_start), solution)
         IN  IF has_start THEN JobsInRoute(route_indices, jobs, << >>)
             ELSE JobsInOrder(route_indices, jobs)

\* calculate_daily_work_hours(jobs), lines 197-210: 30 minutes per job and 7
\* minutes between consecutive jobs, as hours rounded to one decimal; the
\* result is in tenths of an hour
CalculateDailyWorkHours(jobs) ==
    IF jobs = << >> THEN 0
    ELSE LET job_time_minutes    == Len(jobs) * 30
             travel_time_minutes == Max(0, Len(jobs) - 1) * 7
             total_minutes       == job_time_minutes + travel_time_minutes
         IN  RoundDiv(total_minutes, 6)

\* lines 233-240 and 250-257: an entry without jobs that carries a message
MessageEntry(date, message) ==
    [ date |-> date, jobs |-> << >>, total_jobs |-> 0,
      estimated_work_hours |-> 0, message |-> message ]

\* lines 283-291 and 298-306: the keys 'date' and 'message' are absent there
JobsEntry(date, jobs) ==
    [ date |-> date, jobs |-> jobs, total_jobs |-> Len(jobs),
      estimated_work_hours |-> CalculateDailyWorkHours(jobs), message |-> "" ]

---------------------------------------------------------------------------
(* generate_full_schedule as a state machine: one step per day of the loop *)

InFullLoop == entry = "generate_full_schedule" /\ pc = "loop" /\ i < FULL_HORIZON

\* lines 215-221
FullStart ==
    /\ entry = "generate_full_schedule" /\ pc = "start"
    /\ ~GroupingRaises(customers, today)
    /\ jobs_by_day' = GroupJobsByFeasibleDays(customers, today)
    /\ pc' = "loop"
    /\ i' = 0
    /\ UNCHANGED << input_vars, heap_vars, db_vars, unit_vars, processed, optimiser_vars, cleaner_has_start,
                    full_schedule, assigned_customers >>

\* line 215 raises: the exception leaves generate_full_schedule
FullRaise ==
    /\ entry = "generate_full_schedule" /\ pc = "start"
    /\ GroupingRaises(customers, today)
    /\ pc' = "raised"
    /\ UNCHANGED << input_vars, heap_vars, db_vars, unit_vars, i, processed, optimiser_vars, scheduler_vars >>

\* lines 229-241
FullSkippedDay ==
    /\ InFullLoop /\ ~CanOptimizeDate(CurrentDate, today)
    /\ full_schedule' = Put(full_schedule, CurrentDate,
                            MessageEntry(CurrentDate, "Skipped - Cannot optimize (today/tomorrow restriction)"))
    /\ processed' = Append(processed, CurrentDate)
    /\ i' = i + 1
    /\ UNCHANGED << input_vars, heap_vars, db_vars, unit_vars, pc, optimiser_vars, cleaner_has_start,
                    jobs_by_day, assigned_customers >>

\* lines 244-258
FullNoHours ==
    /\ InFullLoop /\ CanOptimizeDate(CurrentDate, today)
    /\ GetDailyWorkHours(work_schedule, CurrentDate) <= 0
    /\ full_schedule' = Put(full_schedule, CurrentDate,
                            MessageEntry(CurrentDate, "No work hours scheduled"))
    /\ processed' = Append(processed, CurrentDate)
    /\ i' = i + 1
    /\ UNCHANGED << input_vars, heap_vars, db_vars, unit_vars, pc, optimiser_vars, cleaner_has_start,
                    jobs_by_day, assigned_customers >>

\* the default min_jobs_per_day of select_jobs_for_day, whatever the hours
MinJobsDefault(max_jobs_for_day) == MIN_JOBS

\* line 268: min_jobs = 15 if max_jobs_for_day >= 15 else max_jobs_for_day
MinJobsFor(max_jobs_for_day) ==
    IF max_jobs_for_day >= MIN_JOBS THEN MIN_JOBS ELSE max_jobs_for_day

\* lines 261-273: the jobs selected for the current date
SelectedJobs ==
    LET daily_work_hours == GetDailyWorkHours(work_schedule, CurrentDate)
        max_jobs_for_day == CalculateMaxJobsForHours(daily_work_hours)
        day_jobs         == IF CurrentDate \in DOMAIN jobs_by_day
                            THEN jobs_by_day[CurrentDate] ELSE << >>
        available_jobs   == SelectSeq(day_jobs,
                               LAMBDA job : job.customer_id \notin assigned_customers)
        min_jobs         == MinJobsFor(max_jobs_for_day)
        max_jobs         == Min(MAX_JOBS, max_jobs_for_day)
    IN  SelectJobsForDay(available_jobs, min_jobs, max_jobs)

FullWorking ==
    /\ InFullLoop /\ CanOptimizeDate(CurrentDate, today)
    /\ GetDailyWorkHours(work_schedule, CurrentDate) > 0

\* lines 296-306: no job selected
FullWorkingDayEmpty ==
    /\ FullWorking
    /\ SelectedJobs = << >>
    /\ full_schedule' = Put(full_schedule, CurrentDate, JobsEntry(CurrentDate, << >>))
    /\ processed' = Append(processed, CurrentDate)
    /\ i' = i + 1
    /\ UNCHANGED << input_vars, heap_vars, db_vars, unit_vars, pc, optimiser_vars, cleaner_has_start,
                    jobs_by_day, assigned_customers >>

\* lines 275-295: jobs selected; an empty optimized_schedule records nothing
FullWorkingDayRoute ==
    /\ FullWorking
    /\ SelectedJobs # << >>
    /\ \E solution \in SolverOutcomes(RouteNodes(SelectedJobs, cleaner_has_start)) :
          LET optimized_schedule ==
                  SchedulerOptimizeDailyRoute(SelectedJobs, cleaner_has_start, solution)
          IN  IF optimized_schedule # << >>
              THEN /\ full_schedule' = Put(full_schedule, CurrentDate,
                                           JobsEntry(CurrentDate, optimized_schedule))
                   /\ assigned_customers' = assigned_customers \cup
                          { optimized_schedule[k].customer_id :
                              k \in 1..Len(optimized_schedule) }
              ELSE UNCHANGED << full_schedule, assigned_customers >>
    /\ processed' = Append(processed, CurrentDate)
    /\ i' = i + 1
    /\ UNCHANGED << input_vars, heap_vars, db_vars, unit_vars, pc, optimiser_vars, cleaner_has_start, jobs_by_day >>

\* line 308
FullFinish ==
    /\ entry = "generate_full_schedule" /\ pc = "loop" /\ i = FULL_HORIZON
    /\ pc' = "done"
    /\ UNCHANGED << input_vars, heap_vars, db_vars, unit_vars, i, processed, optimiser_vars, scheduler_vars >>

---------------------------------------------------------------------------
(* Inputs *)

\* last_cleaned strings: 40 and 20 days ago, or not in '%Y-%m-%d' form
LastCleanedChoices == { << Today - 40 >>, << Today - 20 >>, Bad }
DurationChoices == { << 200 >>, << 50 >> }
FrequencyChoices == { << 14 >>, << 30 >> }

\* calendar entries of the weekdays that may carry hours: a day off, a short
\* day, a full day; the other weekdays have None
HoursChoices == { << 0 >>, << 1 >>, << 8 >> }

\* the horizon offsets whose weekday may carry an entry in the calendar
OpenOffsets == { 0, 2 }
FullOpenOffsets == { 2, 3 }

\* customer lists with the unique ids 1..n
WithIds(fs) == [k \in 1..Len(fs) |-> Put(fs[k], "id", k)]

CustomerLists(F, n) == { WithIds(fs) : fs \in SeqsUpTo(F, n) }

Calendars(offsets) ==
    LET open == { Weekday(Today + o) : o \in offsets }
    IN  { [w \in 0..6 |-> IF w \in open THEN f[w] ELSE Bad] :
            f \in [open -> HoursChoices] }

\* the state before the operation has run
\* the operation does not reach the database
NoTables ==
    /\ work_schedules = << >>
    /\ user_assignments = << >>
    /\ saves = EmptyDict
    /\ tables_before = EmptyDict

Unset ==
    /\ i = 0
    /\ processed = << >>
    /\ customers_needing_service = << >>
    /\ schedule = EmptyDict
    /\ unscheduled_customers = << >>
    /\ daily_customers = EmptyDict
    /\ initial_pool = << >>
    /\ solver_found = EmptyDict
    /\ jobs_by_day = EmptyDict
    /\ full_schedule = EmptyDict
    /\ assigned_customers = {}
    /\ enhanced_customers = << >>
    /\ learned_duration = Bad
    /\ day_route = EmptyDict
    /\ total_time_saved = 0
    /\ total_fuel_saved = 0
    /\ summary = EmptyDict
    /\ time_savings_summary = EmptyDict
    /\ response = EmptyDict
    /\ NoTables

\* the operation is not run on objects
NoObjects == heap = << >> /\ runs = EmptyDict

Fresh == pc = "start" /\ Unset /\ NoObjects

\* no Supabase credentials: LEARNING_ENABLED is False and no table is read
NoHistorySource ==
    /\ LEARNING_ENABLED = FALSE
    /\ job_times = EmptyDict
    /\ fallback = << DEFAULT_DURATION >>

\* the customers of the runs of create_2_week_schedule; a customer whose
\* last_cleaned does not parse is left out before its duration is read, so it
\* comes with one duration only
OptimiserCustomers ==
    { c \in [ last_cleaned : LastCleanedChoices, frequency_days : { << 14 >> },
              estimated_duration : DurationChoices, price : { 20 },
              payment_method : { Bad }, location : { 0 } ] :
        c.last_cleaned = Bad => c.estimated_duration = << 50 >> }

InitOptimiser ==
    /\ entry = "create_2_week_schedule"
    /\ today = Today
    /\ customers \in CustomerLists(OptimiserCustomers, MaxCustomers)
    /\ work_schedule \in Calendars(OpenOffsets)
    /\ protect_near_dates \in BOOLEAN
    /\ max_hours = 0
    /\ cleaner_has_start = FALSE
    /\ NoHistorySource
    /\ cleaner_start_location = 0
    /\ Fresh

InitScheduler ==
    /\ entry = "generate_full_schedule"
    /\ today = Today
    /\ customers \in CustomerLists(
           [ last_cleaned : LastCleanedChoices, frequency_days : FrequencyChoices,
             estimated_duration : { << 50 >> } ], MaxCustomers)
    /\ work_schedule \in Calendars(FullOpenOffsets)
    /\ protect_near_dates = FALSE
    /\ max_hours = 0
    /\ cleaner_has_start \in BOOLEAN
    /\ NoHistorySource
    /\ cleaner_start_location = 0
    /\ Fresh

Init == InitOptimiser \/ InitScheduler

Next ==
    \/ Start
    \/ ProtectedDay
    \/ DayOff
    \/ WorkingDayEmpty
    \/ WorkingDayRoute
    \/ Finish
    \/ FinishRaise
    \/ FullStart
    \/ FullRaise
    \/ FullSkippedDay
    \/ FullNoHours
    \/ FullWorkingDayEmpty
    \/ FullWorkingDayRoute
    \/ FullFinish

Spec == Init /\ [][Next]_vars

---------------------------------------------------------------------------
(* _filter_customers_by_urgency on its own, over a wider range of customers *)

\* last_cleaned: 40 or 14 days ago, today, 5 days ahead, or unparsable
ScoredLastCleaned ==
    { << Today - 40 >>, << Today - 14 >>, << Today >>, << Today + 5 >>, Bad }

\* frequency_days: negative, zero, 14, 30, or not an integer
ScoredFrequency == { << 0 - 7 >>, << 0 >>, << 14 >>, << 30 >>, Bad }

InitUrgency ==
    /\ entry = "_filter_customers_by_urgency"
    /\ today = Today
    /\ customers \in CustomerLists(
           [ last_cleaned : ScoredLastCleaned, frequency_days : ScoredFrequency,
             estimated_duration : { << 50 >> } ], MaxScored)
    /\ work_schedule = [w \in 0..6 |-> Bad]
    /\ protect_near_dates = FALSE
    /\ max_hours = 0
    /\ cleaner_has_start = FALSE
    /\ NoHistorySource
    /\ cleaner_start_location = 0
    /\ Fresh

\* _filter_customers_by_urgency(customers)
ScoreCustomers ==
    /\ entry = "_filter_customers_by_urgency" /\ pc = "start"
    /\ customers_needing_service' = FilterCustomersByUrgency(customers, today)
    /\ pc' = "done"
    /\ UNCHANGED << input_vars, heap_vars, db_vars, unit_vars, i, processed, scheduler_vars, protect_near_dates,
                    schedule, unscheduled_customers, daily_customers,
                    initial_pool, solver_found >>

NextUrgency == ScoreCustomers

SpecUrgency == InitUrgency /\ [][NextUrgency]_vars

---------------------------------------------------------------------------
(* _assign_customers_to_day on its own, over any pool order *)

\* estimated_duration: unparsable, or 0, 30, 50, 200, 440 minutes
PackedDurations == { Bad, << 0 >>, << 30 >>, << 50 >>, << 200 >>, << 440 >> }

PackedHours == { 0, 1, 8 }

InitPacker ==
    /\ entry = "_assign_customers_to_day"
    /\ today = Today
    /\ customers \in CustomerLists(
           [ last_cleaned : { << Today - 40 >> }, frequency_days : { << 14 >> },
             estimated_duration : PackedDurations ], MaxPool)
    /\ work_schedule = [w \in 0..6 |-> Bad]
    /\ protect_near_dates = FALSE
    /\ max_hours \in PackedHours
    /\ cleaner_has_start = FALSE
    /\ NoHistorySource
    /\ cleaner_start_location = 0
    /\ Fresh

\* _assign_customers_to_day(customers, date, max_hours)
PackDay ==
    /\ entry = "_assign_customers_to_day" /\ pc = "start"
    /\ daily_customers' =
           Put(daily_customers, today, AssignCustomersToDay(customers, today, max_hours))
    /\ pc' = "done"
    /\ UNCHANGED << input_vars, heap_vars, db_vars, unit_vars, i, processed, scheduler_vars, protect_near_dates,
                    customers_needing_service, schedule, unscheduled_customers,
                    initial_pool, solver_found >>

NextPacker == PackDay

SpecPacker == InitPacker /\ [][NextPacker]_vars

---------------------------------------------------------------------------
(* create_2_week_schedule with and without a history source *)

MaxLearners == 2

\* what the lookup finds for a customer: an error, no rows, one row, two rows
LearnedHistories ==
    { [raises |-> TRUE,  rows |-> << >>],
      [raises |-> FALSE, rows |-> << >>],
      [raises |-> FALSE, rows |-> << 200 >>],
      [raises |-> FALSE, rows |-> << 40, 61 >>] }

InitLearning ==
    /\ entry = "create_2_week_schedule"
    /\ today = Today
    /\ customers \in CustomerLists(
           [ last_cleaned : { << Today - 40 >> }, frequency_days : { << 14 >> },
             estimated_duration : DurationChoices, price : { 20 },
             payment_method : { Bad }, location : { 0 } ], MaxLearners)
    /\ work_schedule \in Calendars({ 0 })
    /\ protect_near_dates \in BOOLEAN
    /\ max_hours = 0
    /\ cleaner_has_start = FALSE
    /\ LEARNING_ENABLED \in BOOLEAN
    /\ job_times \in IF LEARNING_ENABLED
                     THEN [1..Len(customers) -> LearnedHistories]
                     ELSE { EmptyDict }
    /\ fallback = << DEFAULT_DURATION >>
    /\ cleaner_start_location = 0
    /\ Fresh

NextLearning ==
    \/ Start
    \/ ProtectedDay
    \/ DayOff
    \/ WorkingDayEmpty
    \/ WorkingDayRoute
    \/ Finish
    \/ FinishRaise

SpecLearning == InitLearning /\ [][NextLearning]_vars

---------------------------------------------------------------------------
(* get_learned_duration on its own, over many histories *)

MaxHistory == 11
MaxVaried == 5

\* actual_duration of the customer's rows, newest first: long histories of two
\* values, short histories of six
SampleHistories ==
    SeqsUpTo({ 20, 25 }, MaxHistory) \cup
    SeqsUpTo({ 20, 22, 24, 25, 35, 100 }, MaxVaried)

InitLearned ==
    /\ entry = "get_learned_duration"
    /\ today = Today
    /\ customers = << >>
    /\ work_schedule = [w \in 0..6 |-> Bad]
    /\ protect_near_dates = FALSE
    /\ max_hours = 0
    /\ cleaner_has_start = FALSE
    /\ LEARNING_ENABLED \in BOOLEAN
    /\ job_times \in [{ 1 } -> [raises : BOOLEAN, rows : SampleHistories]]
    /\ fallback = << DEFAULT_DURATION >>
    /\ cleaner_start_location = 0
    /\ Fresh

\* get_learned_duration(customer_id, fallback) for customer 1
GetLearned ==
    /\ entry = "get_learned_duration" /\ pc = "start"
    /\ learned_duration' = GetLearnedDuration(1, fallback)
    /\ pc' = "done"
    /\ UNCHANGED << input_vars, heap_vars, db_vars, i, processed, optimiser_vars, scheduler_vars,
                    enhanced_customers, day_route, total_time_saved,
                    total_fuel_saved, summary, time_savings_summary,
                    response >>

NextLearned == GetLearned

SpecLearned == InitLearned /\ [][NextLearned]_vars

---------------------------------------------------------------------------
(* _optimize_daily_route on its own, with the places of the customers *)

MaxStops == 3

\* kilometre marks of the customers and of the cleaner's start
LocationChoices == 0..2
StartChoices == { 0, 1 }

LocatedCustomers(n) ==
    { [k \in 1..Len(ls) |->
          [ id |-> k, last_cleaned |-> << Today - 40 >>,
            frequency_days |-> << 14 >>, estimated_duration |-> << 50 >>,
            price |-> 20, payment_method |-> Bad,
            location |-> ls[k] ]] : ls \in SeqsUpTo(LocationChoices, n) }

InitSavings ==
    /\ entry = "_optimize_daily_route"
    /\ today = Today
    /\ customers \in LocatedCustomers(MaxStops)
    /\ work_schedule = [w \in 0..6 |-> Bad]
    /\ protect_near_dates = FALSE
    /\ max_hours = 0
    /\ cleaner_has_start = FALSE
    /\ NoHistorySource
    /\ cleaner_start_location \in StartChoices
    /\ Fresh

\* _optimize_daily_route(customers, cleaner_start_location)
OptimizeDay ==
    /\ entry = "_optimize_daily_route" /\ pc = "start"
    /\ IF customers = << >>
       THEN day_route' = EmptyDayRoute
       ELSE \E solution \in SolverOutcomes(Len(customers) + 1) :
                day_route' = DayRouteWithSavings(customers, cleaner_start_location,
                                                 solution)
    /\ pc' = "done"
    /\ UNCHANGED << input_vars, heap_vars, db_vars, i, processed, optimiser_vars, scheduler_vars,
                    enhanced_customers, learned_duration, total_time_saved,
                    total_fuel_saved, summary, time_savings_summary,
                    response >>

NextSavings == OptimizeDay

SpecSavings == InitSavings /\ [][NextSavings]_vars

---------------------------------------------------------------------------
(* app.py: the endpoints that read the account's data from the database *)

MaxAccount == 2

AppEntries == { "create_1week_schedule", "create_schedule_from_express" }

\* what get_customers (database.py:44-78) hands back for the account: rows
\* mapped to the scheduler's format, [] without rows or after an error
AccountCustomers ==
    CustomerLists(
        [ last_cleaned : { << Today - 40 >> }, frequency_days : { << 14 >> },
          estimated_duration : DurationChoices, price : { 20, 35 },
          payment_method : { Bad }, location : { 0, 2 } ], MaxAccount)

\* the calendar: the row get_work_schedule (database.py:23-42) finds, or the
\* work_schedule of the Express request; without a row the result is None,
\* modelled as the calendar without keys
NoCalendar == EmptyDict

InitApp ==
    /\ entry \in AppEntries
    /\ today = Today
    /\ customers \in AccountCustomers
    /\ work_schedule \in
           IF entry = "create_1week_schedule"
           THEN Calendars({ 0 }) \cup { NoCalendar }
           ELSE Calendars({ 0 })
    /\ protect_near_dates = FALSE
    /\ max_hours = 0
    /\ cleaner_has_start = FALSE
    /\ NoHistorySource
    /\ cleaner_start_location = 0
    /\ pc = "request"
    /\ Unset
    /\ NoObjects

\* the value a call of an async method of the database client leaves in the
\* endpoint: the method's result when the call is awaited, the coroutine object
\* when it is not
Call(result, awaited) == [ awaited |-> awaited, result |-> result ]

\* `not value`: a coroutine object is never falsy; None, [] and {} are
Falsy(value) == value.awaited /\ value.result \in { << >>, EmptyDict }

\* create_2_week_schedule raises on an argument that is a coroutine object:
\* line 69 iterates over customers (TypeError) when learning is enabled, line
\* 323 calls work_schedule.get (AttributeError)
ArgumentsRaise(customers_value, work_schedule_value) ==
    \/ LEARNING_ENABLED /\ ~customers_value.awaited
    \/ ~work_schedule_value.awaited

ErrorResponse(status_code) == [ status_code |-> status_code ]

\* the body with schedule_saved_to_db true whatever the save did
ScheduleResponseAlwaysSaved(saved) ==
    [ status_code           |-> 200,
      schedule              |-> schedule,
      summary               |-> summary,
      time_savings_summary  |-> time_savings_summary,
      unscheduled_customers |-> Len(unscheduled_customers),
      schedule_saved_to_db  |-> TRUE ]

\* the body an endpoint returns (app.py:77-85, 206-217), status 200
ScheduleResponse(saved) ==
    [ status_code           |-> 200,
      schedule              |-> schedule,
      summary               |-> summary,
      time_savings_summary  |-> time_savings_summary,
      unscheduled_customers |-> Len(unscheduled_customers),
      schedule_saved_to_db  |-> saved ]

\* the request fails when the schedule could not be saved
ResponseOrSaveError(save_raises) ==
    IF save_raises THEN ErrorResponse(500) ELSE ScheduleResponse(TRUE)

\* app.py:68-85 and 196-217: the response is built whether or not
\* save_optimized_schedule raised; create_schedule_from_express reports the
\* outcome in schedule_saved_to_db, create_1week_schedule always says True
Response(save_raises) ==
    IF entry = "create_schedule_from_express"
    THEN ScheduleResponse(~save_raises)
    ELSE ScheduleResponse(TRUE)

\* create_1week_schedule (app.py:44-88).  Lines 49 and 54 call the async
\* methods without await, so both values are coroutine objects: neither is
\* falsy, create_2_week_schedule raises on them, and the handler of line 87
\* turns every exception (an HTTPException of lines 51 or 56 included) into
\* status 500.
OneWeekRequest ==
    /\ entry = "create_1week_schedule" /\ pc = "request"
    /\ LET work_schedule_value == Call(work_schedule, FALSE)
           customers_value     == Call(customers, FALSE)
       IN  IF Falsy(work_schedule_value) \/ Falsy(customers_value)
           THEN /\ response' = ErrorResponse(500)
                /\ pc' = "responded"
           ELSE IF ArgumentsRaise(customers_value, work_schedule_value)
           THEN /\ response' = ErrorResponse(500)
                /\ pc' = "responded"
           ELSE /\ response' = response
                /\ pc' = "start"
    /\ UNCHANGED << input_vars, heap_vars, db_vars, enhanced_customers, learned_duration, day_route,
                    total_time_saved, total_fuel_saved, summary,
                    time_savings_summary, i, processed, optimiser_vars,
                    scheduler_vars >>

\* create_schedule_from_express up to the call of line 190: the customers are
\* awaited; without customers the HTTPException of line 181 passes the handler
\* of line 219 as it is
ExpressRequest ==
    /\ entry = "create_schedule_from_express" /\ pc = "request"
    /\ LET customers_value == Call(customers, TRUE)
       IN  IF Falsy(customers_value)
           THEN /\ response' = ErrorResponse(404)
                /\ pc' = "responded"
           ELSE /\ response' = response
                /\ pc' = "start"
    /\ UNCHANGED << input_vars, heap_vars, db_vars, enhanced_customers, learned_duration, day_route,
                    total_time_saved, total_fuel_saved, summary,
                    time_savings_summary, i, processed, optimiser_vars,
                    scheduler_vars >>

\* app.py:68-85 and 196-217: the schedule is saved, or the save raises, and
\* the result is returned; saves keeps how the call of
\* save_optimized_schedule ended
Respond ==
    /\ entry \in AppEntries /\ pc = "done"
    /\ \E save_raises \in BOOLEAN :
          /\ response' = Response(save_raises)
          /\ saves' = [r \in { 1 } |->
                          [ pc |-> IF save_raises THEN "raised" ELSE "saved" ]]
    /\ pc' = "responded"
    /\ UNCHANGED << input_vars, heap_vars, work_schedules, user_assignments,
                    tables_before, enhanced_customers, learned_duration, day_route,
                    total_time_saved, total_fuel_saved, summary,
                    time_savings_summary, i, processed, optimiser_vars,
                    scheduler_vars >>

\* app.py:87-88 and 221-222: an exception of create_2_week_schedule becomes
\* status 500
RespondError ==
    /\ entry \in AppEntries /\ pc = "raised"
    /\ response' = ErrorResponse(500)
    /\ pc' = "responded"
    /\ UNCHANGED << input_vars, heap_vars, db_vars, enhanced_customers, learned_duration, day_route,
                    total_time_saved, total_fuel_saved, summary,
                    time_savings_summary, i, processed, optimiser_vars,
                    scheduler_vars >>

NextApp ==
    \/ OneWeekRequest
    \/ ExpressRequest
    \/ Start
    \/ DayOff
    \/ WorkingDayEmpty
    \/ WorkingDayRoute
    \/ Finish
    \/ FinishRaise
    \/ Respond
    \/ RespondError

SpecApp == InitApp /\ [][NextApp]_vars

---------------------------------------------------------------------------
(* create_2_week_schedule on objects: two runs, their steps interleaved *)

\* A dict or a list is an object of the heap and is known by its address; a
\* list holds the addresses of its items.  New objects are put at the end of
\* the heap.  The objects a run creates and never hands to another function by
\* reference (the day's entries, the spread dicts of a route) are kept by value.

MaxRunCustomers == 2

RunIds == { 1, 2 }

\* the values of the items of the list at address a
ListValue(h, a) == [k \in 1..Len(h[a]) |-> h[h[a][k]]]

\* the assignment written to the customer the caller handed in
WriteToCustomer(customer_copy, customer) == customer

\* customer_copy[key] = value (lines 80-84, 348-351) writes to the copy
WriteTarget(customer_copy, customer) == customer_copy

\* the loop of enhance_customers_with_learning (lines 67-86) over the
\* addresses todo: customer.copy(), then the two assignments
RECURSIVE EnhanceObjects(_, _, _)
EnhanceObjects(h, todo, done) ==
    IF todo = << >> THEN [ heap |-> h, items |-> done ]
    ELSE LET customer      == Head(todo)
             customer_copy == Len(h) + 1
             copied        == Append(h, h[customer])
             enhanced      == EnhanceCustomer(h[customer])
             target        == WriteTarget(customer_copy, customer)
             written       ==
                 [copied EXCEPT ![target] =
                     Put(Put(@, "estimated_duration", enhanced.estimated_duration),
                         "duration_source", enhanced.duration_source)]
         IN  EnhanceObjects(written, Tail(todo), Append(done, customer_copy))

\* the loop of _filter_customers_by_urgency (lines 337-354) over the addresses
\* todo: customer.copy(), then the four assignments; a customer whose fields
\* do not parse is left out
RECURSIVE ScoreObjects(_, _, _, _)
ScoreObjects(h, todo, done, t) ==
    IF todo = << >> THEN [ heap |-> h, items |-> done ]
    ELSE LET customer == Head(todo)
         IN  IF ScoringRaises(h[customer])
             THEN ScoreObjects(h, Tail(todo), done, t)
             ELSE LET customer_copy == Len(h) + 1
                      copied  == Append(h, h[customer])
                      scored  == UrgencyRecord(h[customer], t)
                      target  == WriteTarget(customer_copy, customer)
                      written ==
                          [copied EXCEPT ![target] =
                              Put(Put(Put(Put(@,
                                  "days_since_cleaned", scored.days_since_cleaned),
                                  "days_overdue", scored.days_overdue),
                                  "urgency_score", scored.urgency_score),
                                  "next_due_date", scored.next_due_date)]
                  IN  ScoreObjects(written, Tail(todo),
                                   Append(done, customer_copy), t)

\* the addresses among items of the customers in values, in the order of
\* values; the ids of the customers of one list are unique
AddressesOf(h, items, values) ==
    [k \in 1..Len(values) |->
        CHOOSE a \in Range(items) : h[a].id = values[k].id]

\* what the run returns from the loop state, lines 295-313
ResultOf(sched, unscheduled, time_saved, fuel_saved) ==
    IF WeeklyGainDividesByZero(sched) THEN [ raised |-> TRUE ]
    ELSE [ raised                |-> FALSE,
           schedule              |-> sched,
           summary               |-> CreateScheduleSummary(sched),
           time_savings_summary  |->
               TimeSavingsSummary(sched, time_saved, fuel_saved),
           unscheduled_customers |-> unscheduled ]

\* create_2_week_schedule(customers, work_schedule, start) on values, with
\* protect_near_dates False and the solver's answer of each date given:
\* lines 233-293 from day k on
RECURSIVE LoopAlone(_, _, _, _, _, _, _)
LoopAlone(k, pool, sched, time_saved, fuel_saved, ws, solutions) ==
    IF k = HorizonDays THEN ResultOf(sched, pool, time_saved, fuel_saved)
    ELSE LET date         == today + k
             working_days == GetWorkingDays(ws)
         IN  IF Weekday(date) \notin DOMAIN working_days
             THEN LoopAlone(k + 1, pool, sched, time_saved, fuel_saved, ws,
                            solutions)
             ELSE LET hours == working_days[Weekday(date)]
                      daily == AssignCustomersToDay(pool, date, hours)
                  IN  IF daily = << >>
                      THEN LoopAlone(k + 1, pool, sched, time_saved,
                                     fuel_saved, ws, solutions)
                      ELSE LET optimized_route ==
                                   DayRouteWithSavings(daily,
                                       cleaner_start_location, solutions[date])
                           IN  LoopAlone(k + 1, RemoveAssigned(pool, daily),
                                   Put(sched, date,
                                       RouteEntry(date, hours, optimized_route)),
                                   time_saved +
                                       optimized_route.time_savings.time_savings_minutes,
                                   fuel_saved +
                                       optimized_route.time_savings.fuel_savings_estimate_gbp,
                                   ws, solutions)

\* the result of a run on its own
ScheduleAlone(cs, ws, solutions) ==
    LoopAlone(0, FilterCustomersByUrgency(EnhanceCustomersWithLearning(cs), today),
              EmptyDict, 0, 0, ws, solutions)

\* the customers a caller passes: n records
RunCustomers(n) ==
    CustomerLists(
        [ last_cleaned : { << Today - 40 >> }, frequency_days : { << 14 >> },
          estimated_duration : { << 50 >> }, price : { 20 },
          payment_method : { Bad }, location : { 0 } ], n) \ { << >> }

\* the caller's objects of one run on the heap h: the customer dicts, the list
\* of them, the calendar; and the run's locals before its first step
WithCaller(h, cs, ws) ==
    LET dicts     == h \o cs
        customers_address == Len(dicts) + 1
        listed    == Append(dicts, [k \in 1..Len(cs) |-> Len(h) + k])
        calendar  == Append(listed, ws)
    IN  [ heap |-> calendar,
          run  |-> [ pc |-> "start", given_customers |-> cs, given_calendar |-> ws,
                     customers |-> customers_address,
                     work_schedule |-> customers_address + 1,
                     enhanced_customers |-> 0, customers_needing_service |-> 0,
                     i |-> 0, schedule |-> EmptyDict, solutions |-> EmptyDict,
                     total_time_saved |-> 0, total_fuel_saved |-> 0,
                     result |-> EmptyDict ] ]

\* the calendar of the second run: 8 hours on the weekday of today
LongDayCalendar ==
    [w \in 0..6 |-> IF w = Weekday(Today) THEN << 8 >> ELSE Bad]

InitRuns ==
    /\ entry = "two runs of create_2_week_schedule"
    /\ today = Today
    /\ customers = << >>
    /\ work_schedule = [w \in 0..6 |-> Bad]
    /\ protect_near_dates = FALSE
    /\ max_hours = 0
    /\ cleaner_has_start = FALSE
    /\ LEARNING_ENABLED \in BOOLEAN
    /\ job_times = IF LEARNING_ENABLED
                   THEN [id \in 1..MaxRunCustomers |->
                            [ raises |-> FALSE,
                              rows |-> IF id = 1 THEN << 200 >> ELSE << >> ]]
                   ELSE EmptyDict
    /\ fallback = << DEFAULT_DURATION >>
    /\ cleaner_start_location = 0
    /\ pc = "start"
    /\ Unset
    /\ \E cs1 \in RunCustomers(MaxRunCustomers), cs2 \in RunCustomers(1) :
       \E ws1 \in Calendars({ 0 }), ws2 \in { LongDayCalendar } :
          LET first  == WithCaller(<< >>, cs1, ws1)
              second == WithCaller(first.heap, cs2, ws2)
          IN  /\ heap = second.heap
              /\ runs = [r \in RunIds |-> IF r = 1 THEN first.run ELSE second.run]

RunsUnchanged ==
    UNCHANGED << input_vars, pc, i, processed, optimiser_vars, scheduler_vars,
                 unit_vars, db_vars >>

\* line 219 for run r
RunEnhance(r) ==
    /\ entry = "two runs of create_2_week_schedule" /\ runs[r].pc = "start"
    /\ IF ~LEARNING_ENABLED
       THEN /\ heap' = heap
            /\ runs' = [runs EXCEPT ![r].enhanced_customers = runs[r].customers,
                                    ![r].pc = "score"]
       ELSE LET enhanced == EnhanceObjects(heap, heap[runs[r].customers], << >>)
            IN  /\ heap' = Append(enhanced.heap, enhanced.items)
                /\ runs' = [runs EXCEPT ![r].enhanced_customers = Len(heap'),
                                        ![r].pc = "score"]
    /\ RunsUnchanged

\* line 225 for run r: the copies are scored, then sorted into a new list
RunScore(r) ==
    /\ entry = "two runs of create_2_week_schedule" /\ runs[r].pc = "score"
    /\ LET scored == ScoreObjects(heap, heap[runs[r].enhanced_customers], << >>,
                                  today)
           sorted == SortedByUrgency(
                         [k \in 1..Len(scored.items) |-> scored.heap[scored.items[k]]])
       IN  /\ heap' = Append(scored.heap,
                             AddressesOf(scored.heap, scored.items, sorted))
           /\ runs' = [runs EXCEPT ![r].customers_needing_service = Len(heap'),
                                   ![r].pc = "loop"]
    /\ RunsUnchanged

\* one pass of the loop of lines 233-293 for run r
RunDay(r) ==
    /\ entry = "two runs of create_2_week_schedule"
    /\ runs[r].pc = "loop" /\ runs[r].i < HorizonDays
    /\ LET run          == runs[r]
           date         == today + run.i
           working_days == GetWorkingDays(heap[run.work_schedule])
           pool         == heap[run.customers_needing_service]
           daily        ==
               IF Weekday(date) \in DOMAIN working_days
               THEN AssignCustomersToDay(
                        ListValue(heap, run.customers_needing_service), date,
                        working_days[Weekday(date)])
               ELSE << >>
       IN  IF daily = << >>
           THEN /\ heap' = heap
                /\ runs' = [runs EXCEPT ![r].i = run.i + 1]
           ELSE \E solution \in SolverOutcomes(Len(daily) + 1) :
                  LET optimized_route ==
                          DayRouteWithSavings(daily, cleaner_start_location,
                                              solution)
                      assigned_ids == Range(Ids(daily))
                      remaining ==
                          SelectSeq(pool, LAMBDA a : heap[a].id \notin assigned_ids)
                  IN  /\ heap' = Append(heap, remaining)
                      /\ runs' = [runs EXCEPT
                             ![r].i = run.i + 1,
                             ![r].customers_needing_service = Len(heap'),
                             ![r].schedule =
                                 Put(run.schedule, date,
                                     RouteEntry(date, working_days[Weekday(date)],
                                                optimized_route)),
                             ![r].solutions = Put(run.solutions, date, solution),
                             ![r].total_time_saved = run.total_time_saved +
                                 optimized_route.time_savings.time_savings_minutes,
                             ![r].total_fuel_saved = run.total_fuel_saved +
                                 optimized_route.time_savings.fuel_savings_estimate_gbp]
    /\ RunsUnchanged

\* lines 295-313 for run r; the result holds the pool by reference
RunReturn(r) ==
    /\ entry = "two runs of create_2_week_schedule"
    /\ runs[r].pc = "loop" /\ runs[r].i = HorizonDays
    /\ heap' = heap
    /\ runs' = [runs EXCEPT
           ![r].pc = "done",
           ![r].result =
               ResultOf(runs[r].schedule, runs[r].customers_needing_service,
                        runs[r].total_time_saved, runs[r].total_fuel_saved)]
    /\ RunsUnchanged

NextRuns ==
    \E r \in RunIds : RunEnhance(r) \/ RunScore(r) \/ RunDay(r) \/ RunReturn(r)

SpecRuns == InitRuns /\ [][NextRuns]_vars

---------------------------------------------------------------------------
(* generate_full_schedule with more customers than a day can take *)

\* the numbers of customers: none, a few, just under and over the 15 of
\* min_jobs, more than the 23 of max_jobs, and enough to fill two days
BusyCounts == { 0, 2, 14, 16, 24, 40 }

\* a short day, a day of 16 jobs, a day of more than 23 jobs, or a day off
BusyHours == { << 0 >>, << 1 >>, << 10 >>, << 15 >> }

\* n customers whose window covers the whole horizon; the odd ones are due
\* every 14 days, the even ones every 30 days
BusyCustomers(n) ==
    [k \in 1..n |->
        [ id |-> k, last_cleaned |-> << Today - 20 >>,
          frequency_days |-> IF k % 2 = 1 THEN << 14 >> ELSE << 30 >>,
          estimated_duration |-> << 50 >> ]]

BusyCalendars ==
    LET open == { Weekday(Today + o) : o \in FullOpenOffsets }
    IN  { [w \in 0..6 |-> IF w \in open THEN f[w] ELSE Bad] :
            f \in [open -> BusyHours] }

InitBusy ==
    /\ entry = "generate_full_schedule"
    /\ today = Today
    /\ \E n \in BusyCounts : customers = BusyCustomers(n)
    /\ work_schedule \in BusyCalendars
    /\ protect_near_dates = FALSE
    /\ max_hours = 0
    /\ cleaner_has_start \in BOOLEAN
    /\ NoHistorySource
    /\ cleaner_start_location = 0
    /\ Fresh

NextBusy ==
    \/ FullStart
    \/ FullSkippedDay
    \/ FullNoHours
    \/ FullWorkingDayEmpty
    \/ FullWorkingDayRoute
    \/ FullFinish

SpecBusy == InitBusy /\ [][NextBusy]_vars

---------------------------------------------------------------------------
(* generate_full_schedule with cleaning windows that start or end inside the
   horizon *)

\* last cleaned 40 or 12 days ago: with a frequency of 14 or 30 days the window
\* ends before today, ends on today+4, covers the horizon, or starts on today+4
WindowLastCleaned == { << Today - 40 >>, << Today - 12 >> }

\* the horizon offsets whose weekday may carry hours: one before and one
\* after today+4
WindowOpenOffsets == { 3, 5 }

InitWindow ==
    /\ entry = "generate_full_schedule"
    /\ today = Today
    /\ customers \in CustomerLists(
           [ last_cleaned : WindowLastCleaned, frequency_days : FrequencyChoices,
             estimated_duration : { << 50 >> } ], MaxAccount)
    /\ work_schedule \in Calendars(WindowOpenOffsets)
    /\ protect_near_dates = FALSE
    /\ max_hours = 0
    /\ cleaner_has_start \in BOOLEAN
    /\ NoHistorySource
    /\ cleaner_start_location = 0
    /\ Fresh

SpecWindow == InitWindow /\ [][NextBusy]_vars

---------------------------------------------------------------------------
(* database.py: save_optimized_schedule.  Every .execute() is one request to
   the database and no transaction spans two of them, so a call is a sequence
   of steps, one per request, and each request may fail. *)

SaveIds == { 1, 2 }

\* the dates of a saved schedule: today, tomorrow and the day after
SaveDates == << Today, Today + 1, Today + 2 >>

\* a customer as a day of the schedule lists it (optimiser.py:428-432)
SavedCustomer(id, order) ==
    [ id |-> id, route_order |-> order, estimated_duration |-> 50, price |-> 20 ]

\* the schedules create_2_week_schedule hands to the save: each customer of
\* the account is on one day or on none; with protect_near_dates today and
\* tomorrow are protected and carry no customer
SavedSchedule(protect, place) ==
    [d \in Range(SaveDates) |->
        LET ids == SelectSeq([k \in 1..MaxAccount |-> k],
                             LAMBDA id : place[id] = << d >>)
        IN  [ customers |-> [k \in 1..Len(ids) |-> SavedCustomer(ids[k], k)],
              protected |-> protect /\ d \in { Today, Today + 1 } ]]

SavedSchedules ==
    LET places == [1..MaxAccount -> { Bad, << Today >>, << Today + 2 >> }]
    IN  { SavedSchedule(FALSE, place) : place \in places } \cup
        { SavedSchedule(TRUE, place) :
            place \in { f \in places : \A id \in 1..MaxAccount : f[id] # << Today >> } }

\* lines 205-229: the rows of one day
AssignmentRows(user_id, date, day_data) ==
    [k \in 1..Len(day_data.customers) |->
        [ user_id            |-> user_id,
          customer_id        |-> day_data.customers[k].id,
          scheduled_date     |-> date,
          route_order        |-> day_data.customers[k].route_order,
          estimated_duration |-> day_data.customers[k].estimated_duration,
          price              |-> day_data.customers[k].price,
          status             |-> "scheduled" ]]

\* lines 205-211: the dates of the loop that have customers, in the order of
\* the dict; a day without customers is skipped without a request
DatesToInsert(schedule_data) ==
    SelectSeq(SaveDates, LAMBDA d : schedule_data[d].customers # << >>)

\* line 149: update({"is_active": False}).eq("user_id", user_id)
Deactivate(table, user_id) ==
    [k \in 1..Len(table) |->
        IF table[k].user_id = user_id
        THEN [table[k] EXCEPT !.is_active = FALSE]
        ELSE table[k]]

\* line 152: insert(work_schedule_data); the table gives the row its id
InsertWorkSchedule(table, user_id, hours) ==
    Append(table, [ id |-> Len(table) + 1, user_id |-> user_id,
                    hours |-> hours, is_active |-> TRUE ])

\* line 203: delete().eq("user_id", user_id).gte("scheduled_date", today)
DeleteFromToday(table, user_id, t) ==
    SelectSeq(table, LAMBDA row : ~(row.user_id = user_id /\ row.scheduled_date >= t))

\* the call as it starts: nothing is sent yet
SaveCall(user_id, hours, schedule_data) ==
    [ pc |-> "update", user_id |-> user_id, work_schedule |-> hours,
      schedule_data |-> schedule_data, todo |-> DatesToInsert(schedule_data),
      schedule_id |-> 0 ]

\* what the tables hold before the calls: another user's rows, and for the
\* user nothing, or an active calendar and assignments of yesterday, today,
\* tomorrow and the day after
StoredSchedules ==
    { << [ id |-> 1, user_id |-> "other", hours |-> NoCalendar, is_active |-> TRUE ] >>,
      << [ id |-> 1, user_id |-> "other", hours |-> NoCalendar, is_active |-> TRUE ],
         [ id |-> 2, user_id |-> "user", hours |-> NoCalendar, is_active |-> TRUE ] >> }

StoredAssignments ==
    LET other == AssignmentRows("other", Today + 1,
                                [ customers |-> << SavedCustomer(1, 1) >> ])
        row(date, id) == AssignmentRows("user", date,
                                        [ customers |-> << SavedCustomer(id, 1) >> ])
    IN  { other,
          other \o row(Today - 1, 1) \o row(Today, 2) \o row(Today + 1, 1)
                \o row(Today + 2, 2) }

InitSave ==
    /\ entry = "save_optimized_schedule"
    /\ today = Today
    /\ customers = << >>
    /\ work_schedule = [w \in 0..6 |-> Bad]
    /\ protect_near_dates = FALSE
    /\ max_hours = 0
    /\ cleaner_has_start = FALSE
    /\ NoHistorySource
    /\ cleaner_start_location = 0
    /\ pc = "start"
    /\ i = 0
    /\ processed = << >>
    /\ customers_needing_service = << >>
    /\ schedule = EmptyDict
    /\ unscheduled_customers = << >>
    /\ daily_customers = EmptyDict
    /\ initial_pool = << >>
    /\ solver_found = EmptyDict
    /\ jobs_by_day = EmptyDict
    /\ full_schedule = EmptyDict
    /\ assigned_customers = {}
    /\ enhanced_customers = << >>
    /\ learned_duration = Bad
    /\ day_route = EmptyDict
    /\ total_time_saved = 0
    /\ total_fuel_saved = 0
    /\ summary = EmptyDict
    /\ time_savings_summary = EmptyDict
    /\ response = EmptyDict
    /\ NoObjects
    /\ work_schedules \in StoredSchedules
    /\ user_assignments \in StoredAssignments
    /\ tables_before = [ work_schedules |-> work_schedules,
                         user_assignments |-> user_assignments ]
    /\ \E first, second \in SavedSchedules :
          saves = [r \in SaveIds |->
                      IF r = 1 THEN SaveCall("user", LongDayCalendar, first)
                      ELSE SaveCall("user", NoCalendar, second)]

SaveUnchanged ==
    UNCHANGED << input_vars, pc, i, processed, optimiser_vars, scheduler_vars,
                 unit_vars, heap_vars, tables_before >>

Saving(r, at) == entry = "save_optimized_schedule" /\ saves[r].pc = at

\* line 149
SaveDeactivate(r) ==
    /\ Saving(r, "update")
    /\ work_schedules' = Deactivate(work_schedules, saves[r].user_id)
    /\ saves' = [saves EXCEPT ![r].pc = "insert"]
    /\ UNCHANGED user_assignments
    /\ SaveUnchanged

\* lines 152-157
SaveInsertSchedule(r) ==
    /\ Saving(r, "insert")
    /\ work_schedules' = InsertWorkSchedule(work_schedules, saves[r].user_id,
                                            saves[r].work_schedule)
    /\ saves' = [saves EXCEPT ![r].pc = "delete",
                              ![r].schedule_id = Len(work_schedules) + 1]
    /\ UNCHANGED user_assignments
    /\ SaveUnchanged

\* the call returns schedule_id once no day is left to insert (lines 160-164)
AfterRequest(todo) == IF todo = << >> THEN "saved" ELSE "days"

\* lines 202-203
SaveDeleteFuture(r) ==
    /\ Saving(r, "delete")
    /\ user_assignments' = DeleteFromToday(user_assignments, saves[r].user_id, today)
    /\ saves' = [saves EXCEPT ![r].pc = AfterRequest(saves[r].todo)]
    /\ UNCHANGED work_schedules
    /\ SaveUnchanged

\* lines 205-229 for the next day that has customers
SaveInsertDay(r) ==
    /\ Saving(r, "days")
    /\ LET date == Head(saves[r].todo)
       IN  user_assignments' = user_assignments \o
               AssignmentRows(saves[r].user_id, date, saves[r].schedule_data[date])
    /\ saves' = [saves EXCEPT ![r].todo = Tail(saves[r].todo),
                              ![r].pc = AfterRequest(Tail(saves[r].todo))]
    /\ UNCHANGED work_schedules
    /\ SaveUnchanged

\* a request fails, or the insert of line 152 answers without data: the
\* exception leaves the call (lines 154-155, 166-168, 231-233); what earlier
\* requests wrote stays
SaveRaise(r) ==
    /\ entry = "save_optimized_schedule"
    /\ saves[r].pc \in { "update", "insert", "delete", "days" }
    /\ saves' = [saves EXCEPT ![r].pc = "raised"]
    /\ UNCHANGED << work_schedules, user_assignments >>
    /\ SaveUnchanged

NextSave ==
    \E r \in SaveIds :
        \/ SaveDeactivate(r)
        \/ SaveInsertSchedule(r)
        \/ SaveDeleteFuture(r)
        \/ SaveInsertDay(r)
        \/ SaveRaise(r)

SpecSave == InitSave /\ [][NextSave]_vars

---------------------------------------------------------------------------
(* Properties *)

RouteIds(date) ==
    [k \in 1..Len(schedule[date].customers) |->
        schedule[date].customers[k].customer.id]

JobIds(date) ==
    [k \in 1..Len(full_schedule[date].jobs) |->
        full_schedule[date].jobs[k].customer_id]

Durations(cs) == [k \in 1..Len(cs) |-> Val(cs[k].estimated_duration)]

PackedIds == UNION { Range(Ids(daily_customers[d])) : d \in DOMAIN daily_customers }

\* the horizon day with 0-based index k was protected or had no positive hours
ClosedDay(k) ==
    \/ protect_near_dates /\ k < ProtectedDays
    \/ Weekday(today + k) \notin DOMAIN GetWorkingDays(work_schedule)

\* C1: in the result of create_2_week_schedule and of generate_full_schedule,
\* no customer id is listed on more than one day.
NoCustomerOnTwoDays ==
    /\ \A d1, d2 \in DOMAIN schedule :
          (Range(RouteIds(d1)) \cap Range(RouteIds(d2)) # {}) => d1 = d2
    /\ \A d1, d2 \in DOMAIN full_schedule :
          (Range(JobIds(d1)) \cap Range(JobIds(d2)) # {}) => d1 = d2

\* create_2_week_schedule has finished with customers on two different days
TwoDaysWithCustomers ==
    /\ entry = "create_2_week_schedule" /\ pc = "done"
    /\ \E d1, d2 \in DOMAIN schedule :
          d1 # d2 /\ schedule[d1].customers # << >> /\ schedule[d2].customers # << >>

\* C2: the durations of the customers _assign_customers_to_day selects for a
\* day sum to at most max_hours * 60 minutes.
PackerWithinBudget ==
    (entry = "_assign_customers_to_day" /\ pc = "done") =>
        SeqSum(Durations(daily_customers[today])) <= max_hours * 60

\* three customers of 200 minutes and an 8-hour day: the first two are selected
PackedTwoOfThree ==
    /\ entry = "_assign_customers_to_day" /\ pc = "done"
    /\ max_hours = 8
    /\ Len(customers) = 3
    /\ \A k \in 1..3 : customers[k].estimated_duration = << 200 >>
    /\ Ids(daily_customers[today]) = << 1, 2 >>

\* C3: when create_2_week_schedule finishes, every scored customer is on exactly
\* one day's route or in unscheduled_customers, and not in both.
EveryScoredCustomerPlaced ==
    (entry = "create_2_week_schedule" /\ pc = "done") =>
        \A k \in 1..Len(initial_pool) :
            LET id   == initial_pool[k].id
                days == { d \in DOMAIN schedule : id \in Range(RouteIds(d)) }
                left == id \in Range(Ids(unscheduled_customers))
            IN  \/ Cardinality(days) = 1 /\ ~left
                \/ days = {} /\ left

\* C4: the order optimize_route returns for n locations is a permutation of
\* 0..n-1, also when the solver finds no solution.
RouteOrderIsPermutation ==
    \A d \in DOMAIN solver_found :
        LET n == Len(daily_customers[d]) + 1
        IN  /\ Len(schedule[d].route_order) = n
            /\ Range(schedule[d].route_order) = 0..(n - 1)

\* C5: on a day for which the solver finds no solution, the order is the input
\* order 0..n-1 and the day's route lists the packed customers in input order.
SolverFailureKeepsInputOrder ==
    \A d \in DOMAIN solver_found :
        ~solver_found[d] =>
            /\ schedule[d].route_order = [k \in 1..(Len(daily_customers[d]) + 1) |-> k - 1]
            /\ RouteIds(d) = Ids(daily_customers[d])

\* C6: a day that is protected or has no positive hours gets an entry with an
\* empty customer list and a message, and leaves the pool as it was.
ClosedDayEmitsEmptyEntry ==
    [][ (InLoop /\ ClosedDay(i)) =>
            /\ customers_needing_service' = customers_needing_service
            /\ CurrentDate \in DOMAIN schedule'
            /\ schedule'[CurrentDate].customers = << >>
            /\ schedule'[CurrentDate].message # "" ]_vars

\* C7: every processed day that is not protected and has positive hours has an
\* entry in the schedule, also when the packer selected no customer.
WorkingDayHasEntry ==
    entry = "create_2_week_schedule" =>
        \A k \in 1..Len(processed) :
            ~ClosedDay(k - 1) => processed[k] \in DOMAIN schedule

\* C8: the days are processed in date order, and the pool the packer gets on
\* day i is the scored pool without the customers the packer selected on the
\* days before, in the same relative order.
PoolIsInitialMinusAssigned ==
    (entry = "create_2_week_schedule" /\ pc \in { "loop", "done" }) =>
        /\ processed = [k \in 1..i |-> today + k - 1]
        /\ DOMAIN daily_customers \subseteq Range(processed)
        /\ LET packed == PackedIds
           IN  customers_needing_service =
                   SelectSeq(initial_pool, LAMBDA c : c.id \notin packed)

\* a working day begins with a pool whose head was skipped on an earlier day
\* on which a later customer was selected
SkippedCustomerStillFirst ==
    /\ InLoop /\ ~ClosedDay(i)
    /\ customers_needing_service # << >>
    /\ Len(customers_needing_service) < Len(initial_pool)
    /\ Head(customers_needing_service) = Head(initial_pool)

\* C10: every scored customer has days_overdue = (today - last_cleaned) -
\* frequency_days, urgency_score = max(0, days_overdue) >= 0 and next_due_date =
\* last_cleaned + frequency_days.
UrgencyArithmetic ==
    (entry = "_filter_customers_by_urgency" /\ pc = "done") =>
        \A k \in 1..Len(customers_needing_service) :
            LET r    == customers_needing_service[k]
                last == Val(customers[r.id].last_cleaned)
                freq == Val(customers[r.id].frequency_days)
            IN  /\ r.days_overdue = (today - last) - freq
                /\ r.urgency_score >= 0
                /\ r.urgency_score >= r.days_overdue
                /\ r.urgency_score \in { 0, r.days_overdue }
                /\ r.next_due_date = last + freq

\* a customer last serviced 40 days ago with frequency 14 scores 26
Overdue26 ==
    /\ entry = "_filter_customers_by_urgency" /\ pc = "done"
    /\ \E k \in 1..Len(customers_needing_service) :
          LET r == customers_needing_service[k]
          IN  /\ customers[r.id].last_cleaned = << today - 40 >>
              /\ customers[r.id].frequency_days = << 14 >>
              /\ r.days_overdue = 26
              /\ r.urgency_score = 26

\* C11: the pool _filter_customers_by_urgency returns is ordered by descending
\* urgency_score, then ascending next_due_date, and customers equal on both
\* keep their input order; so every overdue customer comes before every
\* customer not yet due, and customers not yet due are in the pool.
PoolSortedByUrgency ==
    (entry = "_filter_customers_by_urgency" /\ pc = "done") =>
        LET pool == customers_needing_service
        IN  /\ \A k, l \in 1..Len(pool) :
                   k < l =>
                       \/ pool[k].urgency_score > pool[l].urgency_score
                       \/ /\ pool[k].urgency_score = pool[l].urgency_score
                          /\ pool[k].next_due_date < pool[l].next_due_date
                       \/ /\ pool[k].urgency_score = pool[l].urgency_score
                          /\ pool[k].next_due_date = pool[l].next_due_date
                          /\ pool[k].id < pool[l].id
            /\ \A k, l \in 1..Len(pool) :
                   (pool[k].days_overdue > 0 /\ pool[l].days_overdue < 0) => k < l
            /\ \A k \in 1..Len(customers) :
                   ( /\ IsOk(customers[k].last_cleaned)
                     /\ IsOk(customers[k].frequency_days)
                     /\ today - Val(customers[k].last_cleaned)
                            < Val(customers[k].frequency_days) )
                   => customers[k].id \in Range(Ids(pool))

\* two customers not yet due, the second one due earlier: the sort puts the
\* second before the first
EarlierDueMovedFirst ==
    /\ entry = "_filter_customers_by_urgency" /\ pc = "done"
    /\ Len(customers) = 2
    /\ Ids(customers_needing_service) = << 2, 1 >>
    /\ customers_needing_service[1].urgency_score = 0
    /\ customers_needing_service[2].urgency_score = 0
    /\ customers_needing_service[1].next_due_date
          < customers_needing_service[2].next_due_date

\* C12: a customer whose last_cleaned lies after today is rejected by
\* _filter_customers_by_urgency: it is not in the returned pool.
FutureLastCleanedRejected ==
    (entry = "_filter_customers_by_urgency" /\ pc = "done") =>
        \A k \in 1..Len(customers) :
            (IsOk(customers[k].last_cleaned) /\ Val(customers[k].last_cleaned) > today)
                => customers[k].id \notin Range(Ids(customers_needing_service))


\* the customers whose last_cleaned and frequency_days both parse
Parsable(cs) ==
    SelectSeq(cs, LAMBDA c : IsOk(c.last_cleaned) /\ IsOk(c.frequency_days))

\* C13: a customer whose last_cleaned or frequency_days is missing or does not
\* parse is not in the pool, and the pool is the one the remaining customers
\* alone would have given.
UnparsableCustomerLeftOut ==
    (entry = "_filter_customers_by_urgency" /\ pc = "done") =>
        /\ \A k \in 1..Len(customers_needing_service) :
               LET c == customers[customers_needing_service[k].id]
               IN  IsOk(c.last_cleaned) /\ IsOk(c.frequency_days)
        /\ customers_needing_service =
               FilterCustomersByUrgency(Parsable(customers), today)

\* the first customer does not parse and the second one is the whole pool
SecondScoredAfterUnparsable ==
    /\ entry = "_filter_customers_by_urgency" /\ pc = "done"
    /\ Len(customers) = 2
    /\ ~IsOk(customers[1].last_cleaned) \/ ~IsOk(customers[1].frequency_days)
    /\ Ids(customers_needing_service) = << 2 >>


\* C14: every customer in the pool _filter_customers_by_urgency returns has
\* frequency_days > 0; a customer with a zero or negative frequency is left out.
PoolFrequencyPositive ==
    (entry = "_filter_customers_by_urgency" /\ pc = "done") =>
        \A k \in 1..Len(customers_needing_service) :
            Val(customers_needing_service[k].frequency_days) > 0


\* the running total when the walk of _assign_customers_to_day comes to the
\* k-th customer of the pool: the durations of the customers accepted before it
TotalBefore(k) ==
    SeqSum(Durations(SelectSeq(SubSeq(customers, 1, k - 1),
                               LAMBDA c : c.id \in PackedIds)))

\* C15: in _assign_customers_to_day on a working day (max_hours > 0), a customer
\* reached after the running total got to 90% of max_hours * 60 is not accepted,
\* even if it fits; before that, every customer that fits in the remaining
\* minutes is accepted.
PackerStopsAtNinetyPercent ==
    (entry = "_assign_customers_to_day" /\ pc = "done" /\ max_hours > 0) =>
        \A k \in 1..Len(customers) :
            LET accepted == customers[k].id \in PackedIds
            IN  /\ 10 * TotalBefore(k) >= 9 * (max_hours * 60) => ~accepted
                /\ ( /\ 10 * TotalBefore(k) < 9 * (max_hours * 60)
                     /\ IsOk(customers[k].estimated_duration)
                     /\ TotalBefore(k) + Val(customers[k].estimated_duration)
                            <= max_hours * 60 )
                   => accepted

\* an 8-hour day, 440 minutes then 30 minutes: 440 >= 432 ends the walk and
\* the second customer, which would fit in 480, is not accepted
FittingCustomerAfterBuffer ==
    /\ entry = "_assign_customers_to_day" /\ pc = "done"
    /\ max_hours = 8
    /\ Len(customers) >= 2
    /\ customers[1].estimated_duration = << 440 >>
    /\ customers[2].estimated_duration = << 30 >>
    /\ Ids(daily_customers[today]) = << 1 >>


\* max_minutes of the working day d (line 369)
BudgetOn(d) == GetWorkingDays(work_schedule)[Weekday(d)] * 60

\* the customers the packer selected on the days before d
PackedBefore(d) ==
    UNION { Range(Ids(daily_customers[e])) :
              e \in { x \in DOMAIN daily_customers : x < d } }

\* the pool the packer walked on day d: the scored pool without the customers
\* selected on earlier days
PoolOn(d) ==
    LET before == PackedBefore(d)
    IN  SelectSeq(initial_pool, LAMBDA c : c.id \notin before)

\* the running total when the walk over pool comes to its k-th customer, the
\* day's selection being the customers with the ids in chosen
TotalBeforeIn(pool, chosen, k) ==
    SeqSum(Durations(SelectSeq(SubSeq(pool, 1, k - 1), LAMBDA c : c.id \in chosen)))

\* C16: in create_2_week_schedule, a customer longer than a day's budget is not
\* selected that day and does not end the walk (every customer the walk comes
\* to below 90% and that fits the remaining minutes is selected, on the first
\* such day), a customer not selected so far is still in the pool, and at the
\* end the customers never selected are exactly unscheduled_customers.
SkippedCustomerKeptForLaterDay ==
    (entry = "create_2_week_schedule" /\ pc \in { "loop", "done" }) =>
        /\ \A d \in DOMAIN daily_customers :
              LET pool   == PoolOn(d)
                  chosen == Range(Ids(daily_customers[d]))
                  budget == BudgetOn(d)
              IN  \A k \in 1..Len(pool) :
                      LET duration == Val(pool[k].estimated_duration)
                          total    == TotalBeforeIn(pool, chosen, k)
                          selected == pool[k].id \in chosen
                      IN  /\ duration > budget => ~selected
                          /\ (10 * total < 9 * budget /\ total + duration <= budget)
                                 => selected
        /\ LET packed == PackedIds
           IN  /\ \A k \in 1..Len(initial_pool) :
                      initial_pool[k].id \notin packed
                          => initial_pool[k] \in Range(customers_needing_service)
               /\ pc = "done" =>
                      \A k \in 1..Len(initial_pool) :
                          initial_pool[k].id \notin packed
                              <=> initial_pool[k] \in Range(unscheduled_customers)

\* the run is over; on one day the head of the pool was longer than the budget
\* and a customer behind it was selected, and on a later day the head was
\* selected
SkippedThenSelectedLater ==
    /\ entry = "create_2_week_schedule" /\ pc = "done"
    /\ \E d1, d2 \in DOMAIN daily_customers :
          /\ d1 < d2
          /\ initial_pool # << >>
          /\ Val(Head(initial_pool).estimated_duration) > BudgetOn(d1)
          /\ daily_customers[d1] # << >>
          /\ Head(initial_pool).id \in Range(Ids(daily_customers[d2]))


\* the lookup for the k-th customer gives no learned duration: learning is
\* off, the lookup raises, or the customer has no rows
NoLearnedDuration(k) ==
    \/ ~LEARNING_ENABLED
    \/ job_times[customers[k].id].raises
    \/ job_times[customers[k].id].rows = << >>

\* C17: in create_2_week_schedule, a customer without samples, with a failing
\* lookup or with learning off keeps its supplied estimated_duration (the
\* estimator answered the fallback, so the source is not 'learned'); with
\* learning off the enhanced list is the supplied list and every customer in a
\* route or left unscheduled has its supplied estimated_duration.
FallbackKeepsSuppliedDuration ==
    (entry = "create_2_week_schedule" /\ pc \in { "loop", "done" }) =>
        /\ Len(enhanced_customers) = Len(customers)
        /\ \A k \in 1..Len(customers) :
              NoLearnedDuration(k) =>
                  /\ enhanced_customers[k].estimated_duration
                         = customers[k].estimated_duration
                  /\ LEARNING_ENABLED => enhanced_customers[k].duration_source = "estimated"
        /\ ~LEARNING_ENABLED =>
              /\ enhanced_customers = customers
              /\ \A d \in DOMAIN schedule :
                    \A k \in 1..Len(schedule[d].customers) :
                        LET c == schedule[d].customers[k].customer
                        IN  c.estimated_duration = customers[c.id].estimated_duration
              /\ \A k \in 1..Len(unscheduled_customers) :
                    LET c == unscheduled_customers[k]
                    IN  c.estimated_duration = customers[c.id].estimated_duration

\* learning is on, the first customer has no rows, and the run ended with that
\* customer on a route with the duration it was supplied with
NoRowsCustomerRouted ==
    /\ entry = "create_2_week_schedule" /\ pc = "done"
    /\ LEARNING_ENABLED
    /\ customers # << >>
    /\ ~job_times[1].raises /\ job_times[1].rows = << >>
    /\ \E d \in DOMAIN schedule :
          \E k \in 1..Len(schedule[d].customers) :
              LET c == schedule[d].customers[k].customer
              IN  c.id = 1 /\ c.estimated_duration = customers[1].estimated_duration


\* the rows the estimator worked on: the newest QUERY_LIMIT rows of customer 1,
\* when learning is on and the lookup did not raise
Window == Limit(job_times[1].rows, QUERY_LIMIT)

Learned ==
    entry = "get_learned_duration" /\ pc = "done" /\ LEARNING_ENABLED
        /\ ~job_times[1].raises

\* C18 as stated: with one sample get_learned_duration returns it, and with
\* two samples it returns their arithmetic mean, for every pair of values.
TwoSamplesGiveMean ==
    Learned =>
        /\ Len(Window) = 1 => learned_duration = << Window[1] >>
        /\ Len(Window) = 2 =>
              /\ IsOk(learned_duration)
              /\ 2 * Val(learned_duration) = Window[1] + Window[2]

\* C18 amended: with one sample get_learned_duration returns it, and with two
\* samples it returns their arithmetic mean without its fraction (the whole
\* number m with 2m <= sum <= 2m + 1).
TwoSamplesGiveTruncatedMean ==
    Learned =>
        /\ Len(Window) = 1 => learned_duration = << Window[1] >>
        /\ Len(Window) = 2 =>
              /\ IsOk(learned_duration)
              /\ 2 * Val(learned_duration) <= Window[1] + Window[2]
              /\ Window[1] + Window[2] <= 2 * Val(learned_duration) + 1

\* the samples [20, 25], whose mean is 22.5, gave 22
TruncatedMean22 ==
    /\ Learned
    /\ job_times[1].rows = << 20, 25 >>
    /\ learned_duration = << 22 >>


\* how many samples of the window are below x, and how many above
Below(x) == Cardinality({ k \in 1..Len(Window) : Window[k] < x })
Above(x) == Cardinality({ k \in 1..Len(Window) : Window[k] > x })

\* lo and hi are the two middle values of the window (the same value twice when
\* the length is odd): at most half of the samples lie below lo, at most half
\* above hi, and no sample lies strictly between them
MiddlePair(lo, hi) ==
    /\ lo <= hi
    /\ \E k \in 1..Len(Window) : Window[k] = lo
    /\ \E k \in 1..Len(Window) : Window[k] = hi
    /\ \A k \in 1..Len(Window) : ~(lo < Window[k] /\ Window[k] < hi)
    /\ 2 * Below(lo) < Len(Window) /\ 2 * Above(lo) <= Len(Window)
    /\ 2 * Below(hi) <= Len(Window) /\ 2 * Above(hi) < Len(Window)
    /\ (Len(Window) % 2 = 1) => lo = hi
    /\ (Len(Window) % 2 = 0 /\ lo = hi) =>
           Cardinality({ k \in 1..Len(Window) : Window[k] = lo }) >= 2
    /\ (lo < hi) => (2 * Below(hi) = Len(Window) /\ 2 * Above(lo) = Len(Window))

WindowValues == { Window[k] : k \in 1..Len(Window) }

\* C19 as stated: with three or more samples get_learned_duration returns the
\* median of the newest (at most 10) samples, for every window length.
ThreeOrMoreGiveMedian ==
    (Learned /\ Len(Window) >= 3) =>
        /\ IsOk(learned_duration)
        /\ \E lo, hi \in WindowValues :
              MiddlePair(lo, hi) /\ 2 * Val(learned_duration) = lo + hi

\* C19 amended: with three or more samples get_learned_duration returns the
\* median of the newest (at most 10) samples without its fraction: the middle
\* sample for an odd length, the whole part of the mean of the two middle
\* samples for an even length.
ThreeOrMoreGiveTruncatedMedian ==
    (Learned /\ Len(Window) >= 3) =>
        /\ IsOk(learned_duration)
        /\ \E lo, hi \in WindowValues :
              /\ MiddlePair(lo, hi)
              /\ 2 * Val(learned_duration) <= lo + hi
              /\ lo + hi <= 2 * Val(learned_duration) + 1

\* eleven rows, of which the newest ten (five of 20, five of 25) give 22 and
\* all eleven would give 25
TenNewestOfEleven ==
    /\ Learned
    /\ Len(job_times[1].rows) = 11
    /\ Len(Window) = 10
    /\ Cardinality({ k \in 1..10 : Window[k] = 20 }) = 5
    /\ job_times[1].rows[11] = 25
    /\ learned_duration = << 22 >>


\* C20: the time_savings_minutes _optimize_daily_route reports for a day is
\* never negative, whatever order the solver returns.
TimeSavingsNeverNegative ==
    (entry = "_optimize_daily_route" /\ pc = "done") =>
        day_route.time_savings.time_savings_minutes >= 0


\* C21: no efficiency percentage of the pipeline divides by zero: neither the
\* day's efficiency_improvement_percent nor the aggregate
\* weekly_efficiency_gain of a schedule that has entries but no scheduled
\* customer; create_2_week_schedule never ends in the ZeroDivisionError.
EfficiencyNeverDividesByZero ==
    entry = "create_2_week_schedule" => pc # "raised"


\* C22: for a day with exactly one assigned customer, the order of the stops is
\* the single-element order (node 1 after the start) and every savings field
\* (time saved in minutes and hours, fuel saving, efficiency improvement) is
\* zero.
OneCustomerTrivialRoute ==
    (entry = "_optimize_daily_route" /\ pc = "done" /\ Len(customers) = 1) =>
        /\ SkipFirst(day_route.order) = << 1 >>
        /\ Len(day_route.customers) = 1
        /\ day_route.customers[1].customer.id = 1
        /\ day_route.time_savings.time_savings_minutes = 0
        /\ day_route.time_savings.time_savings_hours = 0
        /\ day_route.time_savings.fuel_savings_estimate_gbp = 0
        /\ day_route.time_savings.efficiency_improvement_percent = 0


\* C23: a failure of save_optimized_schedule never turns a computed result
\* into an error: once create_2_week_schedule has returned its result, the
\* request answers 200 with that schedule, summary and savings unchanged,
\* whether or not the save raised.
SaveFailureKeepsSchedule ==
    (entry \in AppEntries /\ pc = "responded" /\ summary # EmptyDict) =>
        /\ response.status_code = 200
        /\ response.schedule = schedule
        /\ response.summary = summary
        /\ response.time_savings_summary = time_savings_summary
        /\ response.unscheduled_customers = Len(unscheduled_customers)

\* the save raised after a customer was scheduled, and the response carries
\* the schedule
ScheduleReturnedUnsaved ==
    /\ entry = "create_schedule_from_express" /\ pc = "responded"
    /\ response.status_code = 200
    /\ response.schedule_saved_to_db = FALSE
    /\ ScheduledCustomers(response.schedule) > 0


\* C24: when the customer source or the calendar source has nothing for the
\* account, the request completes with an empty schedule ('nothing to
\* schedule') and not with an error.
EmptySourceGivesEmptySchedule ==
    ( /\ entry \in AppEntries /\ pc = "responded"
      /\ (customers = << >> \/ work_schedule = NoCalendar) ) =>
        /\ response.status_code = 200
        /\ ScheduledCustomers(response.schedule) = 0


\* the result of run r with the pool read through its reference
ResultValue(r) ==
    IF runs[r].result.raised THEN runs[r].result
    ELSE [runs[r].result EXCEPT
             !.unscheduled_customers = ListValue(heap, @)]

\* C25: a run never modifies the caller's customer list, a customer record in
\* it or the work calendar, so two runs on different inputs, interleaved at
\* any step, each return what the run returns on its own.
RunsLeaveCallerObjectsAlone ==
    entry = "two runs of create_2_week_schedule" =>
        /\ \A r \in RunIds :
              /\ ListValue(heap, runs[r].customers) = runs[r].given_customers
              /\ heap[runs[r].work_schedule] = runs[r].given_calendar
        /\ \A r \in RunIds :
              runs[r].pc = "done" =>
                  ResultValue(r) =
                      ScheduleAlone(runs[r].given_customers,
                                    runs[r].given_calendar, runs[r].solutions)

\* both runs are done and scheduled a customer with learning enabled; the
\* second run began after the first had copied its customers and made its last
\* pool before the first made its own
InterleavedRunsDone ==
    /\ entry = "two runs of create_2_week_schedule"
    /\ \A r \in RunIds : runs[r].pc = "done" /\ ~runs[r].result.raised
    /\ \A r \in RunIds : ScheduledCustomers(runs[r].schedule) > 0
    /\ LEARNING_ENABLED
    /\ runs[1].enhanced_customers < runs[2].enhanced_customers
    /\ runs[2].customers_needing_service < runs[1].customers_needing_service


\* C26: in every emitted day the customers carry route_order 1, 2, ..., k in
\* list order, k is the number of customers the packer selected for that day,
\* and each customer has a payment_method, 'card' when none was supplied.
RouteOrderCountsPackedCustomers ==
    entry = "create_2_week_schedule" =>
        \A d \in DOMAIN schedule :
            LET emitted  == schedule[d].customers
                selected == IF d \in DOMAIN daily_customers
                            THEN daily_customers[d] ELSE << >>
            IN  /\ \A k \in 1..Len(emitted) :
                      /\ emitted[k].route_order = k
                      /\ emitted[k].payment_method =
                             (IF IsOk(emitted[k].customer.payment_method)
                              THEN Val(emitted[k].customer.payment_method)
                              ELSE "card")
                /\ Len(emitted) = Len(selected)


\* C27: in every result of create_2_week_schedule each day's
\* total_duration_minutes and total_revenue are the sums of estimated_duration
\* and price over the customers listed for that day, and the summary's
\* total_customers_scheduled and total_revenue are the sums over all days.
DayTotalsAreSumsOverListed ==
    (entry \in Callers /\ pc = "done") =>
        LET listed(d)  == schedule[d].customers
            minutes(d) == SeqSum([k \in 1..Len(listed(d)) |->
                              Val(listed(d)[k].customer.estimated_duration)])
            revenue(d) == SeqSum([k \in 1..Len(listed(d)) |->
                              listed(d)[k].customer.price])
            dates      == SelectSeq([k \in 1..HorizonDays |-> today + k - 1],
                                    LAMBDA d : d \in DOMAIN schedule)
        IN  /\ \A d \in DOMAIN schedule :
                  /\ schedule[d].total_duration_minutes = minutes(d)
                  /\ schedule[d].total_revenue = revenue(d)
            /\ summary.total_customers_scheduled =
                   SeqSum([k \in 1..Len(dates) |-> Len(listed(dates[k]))])
            /\ summary.total_revenue =
                   SeqSum([k \in 1..Len(dates) |-> revenue(dates[k])])

\* a result with a day of two customers of different prices and durations
TwoPricedCustomersInResult ==
    /\ entry \in Callers /\ pc = "done"
    /\ \E d \in DOMAIN schedule :
          /\ Len(schedule[d].customers) = 2
          /\ schedule[d].total_revenue = 20 + 35
          /\ schedule[d].total_duration_minutes = 200 + 50
    /\ summary.total_customers_scheduled = 2
    /\ summary.total_revenue = 55

\* C28: when customer A precedes customer B in the urgency-sorted pool and both
\* have the same duration, a day on which the packer selects B is a day on
\* which, or after which, it has selected A; so A is never listed on a later
\* day than B, and B is never listed while A is among the unscheduled.
EarlierOfEqualDurationGoesFirst ==
    entry \in Callers =>
        \A a, b \in 1..Len(initial_pool) :
            (a < b /\ initial_pool[a].estimated_duration =
                          initial_pool[b].estimated_duration) =>
                LET A == initial_pool[a].id
                    B == initial_pool[b].id
                    selected(c) == { d \in DOMAIN daily_customers :
                                        c \in Range(Ids(daily_customers[d])) }
                    listed(c)   == { d \in DOMAIN schedule :
                                        \E k \in 1..Len(schedule[d].customers) :
                                            schedule[d].customers[k].customer.id = c }
                IN  /\ \A dB \in selected(B) : \E dA \in selected(A) : dA <= dB
                    /\ \A dA \in listed(A), dB \in listed(B) : dA <= dB
                    /\ (pc = "done" /\ listed(B) # {}) =>
                           A \notin Range(Ids(unscheduled_customers))

\* two customers of the same duration listed on different days of a result
EqualDurationsOnTwoDays ==
    /\ entry \in Callers /\ pc = "done"
    /\ Len(initial_pool) = 2
    /\ initial_pool[1].estimated_duration = initial_pool[2].estimated_duration
    /\ \E dA, dB \in DOMAIN schedule :
          /\ dA < dB
          /\ Len(schedule[dA].customers) = 1
          /\ schedule[dA].customers[1].customer.id = initial_pool[1].id
          /\ Len(schedule[dB].customers) = 1
          /\ schedule[dB].customers[1].customer.id = initial_pool[2].id


SevenEntriesFromToday ==
    (entry = "generate_full_schedule" /\ pc = "done") =>
        /\ DOMAIN full_schedule = today..(today + 6)
        /\ \A d \in DOMAIN full_schedule :
              (d \in { today, today + 1 }
                  \/ GetDailyWorkHours(work_schedule, d) <= 0)
                  => full_schedule[d].jobs = << >>


\* C31: generate_full_schedule places a customer only on a date within its
\* cleaning window [next_clean_date - 14, next_clean_date + 14], and a customer
\* whose window does not meet the 7 days of the horizon is on no day.
PlacedOnlyInsideWindow ==
    entry = "generate_full_schedule" =>
        \A k \in 1..Len(customers) :
            LET next_clean_date == Val(customers[k].last_cleaned)
                                       + Val(customers[k].frequency_days)
                placed == { d \in DOMAIN full_schedule :
                               \E j \in 1..Len(full_schedule[d].jobs) :
                                   full_schedule[d].jobs[j].customer_id
                                       = customers[k].id }
            IN  /\ \A d \in placed : /\ next_clean_date - 14 <= d
                                     /\ d <= next_clean_date + 14
                /\ (next_clean_date + 14 < today \/ today + 6 < next_clean_date - 14)
                       => placed = {}

\* a schedule with one customer placed a day before its window ends and one a
\* day after its window starts, and neither on the other open day
PlacedAtBothEndsOfWindow ==
    /\ entry = "generate_full_schedule" /\ pc = "done"
    /\ Len(customers) = 2
    /\ customers[1].last_cleaned = << Today - 40 >>
    /\ customers[1].frequency_days = << 30 >>
    /\ customers[2].last_cleaned = << Today - 12 >>
    /\ customers[2].frequency_days = << 30 >>
    /\ today + 3 \in DOMAIN full_schedule /\ today + 5 \in DOMAIN full_schedule
    /\ Len(full_schedule[today + 3].jobs) = 1
    /\ full_schedule[today + 3].jobs[1].customer_id = 1
    /\ Len(full_schedule[today + 5].jobs) = 1
    /\ full_schedule[today + 5].jobs[1].customer_id = 2


FutureRows(user_id) ==
    SelectSeq(user_assignments,
              LAMBDA row : row.user_id = user_id /\ row.scheduled_date >= today)

\* the rows a complete save of the schedule leaves
RECURSIVE RowsOfDates(_, _, _)
RowsOfDates(user_id, schedule_data, dates) ==
    IF dates = << >> THEN << >>
    ELSE AssignmentRows(user_id, Head(dates), schedule_data[Head(dates)])
             \o RowsOfDates(user_id, schedule_data, Tail(dates))

\* C33: once the calls of save_optimized_schedule for the user have returned,
\* whether they ran in sequence or with their requests interleaved, the user's
\* stored assignments of today and later are those of one saved schedule, and
\* no customer holds two of them.
FutureAssignmentsOfOneSave ==
    (entry = "save_optimized_schedule" /\ \A r \in SaveIds : saves[r].pc = "saved") =>
        /\ \E r \in SaveIds :
              FutureRows("user") =
                  RowsOfDates("user", saves[r].schedule_data, saves[r].todo \o
                                  DatesToInsert(saves[r].schedule_data))
        /\ \A j, k \in 1..Len(FutureRows("user")) :
              FutureRows("user")[j].customer_id = FutureRows("user")[k].customer_id
                  => j = k



\* C34: once the calls of save_optimized_schedule for the user have returned
\* or raised, in sequence or with their requests interleaved, at most one work
\* schedule of the user is marked active.
AtMostOneActiveSchedule ==
    ( /\ entry = "save_optimized_schedule"
      /\ \A r \in SaveIds : saves[r].pc \in { "saved", "raised" } ) =>
        Len(SelectSeq(work_schedules,
                      LAMBDA row : row.user_id = "user" /\ row.is_active)) <= 1



\* C35: when a call of save_optimized_schedule has raised, and no other call
\* has sent a request, the user's stored state is as before the call: the
\* work schedule that was active is still active, and the assignments of today
\* and later that were stored are still there.
FailedSaveLeavesStoredState ==
    \A r \in DOMAIN saves :
        ( /\ saves[r].pc = "raised"
          /\ \A q \in DOMAIN saves \ { r } : saves[q].pc = "update" ) =>
            /\ \A k \in 1..Len(tables_before.work_schedules) :
                  LET row == tables_before.work_schedules[k]
                  IN  (row.user_id = "user" /\ row.is_active)
                          => work_schedules[k] = row
            /\ \A k \in 1..Len(tables_before.user_assignments) :
                  LET row == tables_before.user_assignments[k]
                  IN  (row.user_id = "user" /\ row.scheduled_date >= today)
                          => \E j \in 1..Len(user_assignments) :
                                 user_assignments[j] = row



\* C36: a completed save of a schedule in which today and tomorrow are
\* protected, with no other call at work, leaves the user's stored assignments
\* of today and tomorrow as they were.
ProtectedDaysKeepStoredAssignments ==
    \A r \in DOMAIN saves :
        ( /\ saves[r].pc = "saved"
          /\ \A q \in DOMAIN saves \ { r } : saves[q].pc = "update"
          /\ saves[r].schedule_data[today].protected
          /\ saves[r].schedule_data[today + 1].protected ) =>
            LET near(table) ==
                    SelectSeq(table,
                              LAMBDA row : /\ row.user_id = "user"
                                           /\ row.scheduled_date \in { today, today + 1 })
            IN  near(user_assignments) = near(tables_before.user_assignments)



LearnedLabelMeansHistory ==
    ( /\ entry = "create_2_week_schedule" /\ LEARNING_ENABLED
      /\ pc # "start" ) =>
        /\ \A k \in 1..Len(customers) :
              enhanced_customers[k].duration_source = "learned"
                  <=> job_times[customers[k].id].rows # << >>
        /\ CustomersWithLearnedData(enhanced_customers) =
               Cardinality({ k \in 1..Len(customers) :
                               job_times[customers[k].id].rows # << >> })

===========================================================================
